---- MODULE Spec2Model ----
(***************************************************************************)
(* Incident validation pipeline of the Delhi water-logging dashboard:      *)
(* the validators of backend/services/validation.js, the score             *)
(* aggregation and the POST /api/incidents route that persists the         *)
(* report.                                                                 *)
(*                                                                         *)
(* JavaScript values are tagged records, so that `undefined`, `null`, 0,   *)
(* NaN and the empty string stay distinct and JavaScript truthiness is     *)
(* computed, not assumed.  Instants are whole seconds since 1970 plus      *)
(* milliseconds.  Angles are integers in micro-degrees; trigonometry is    *)
(* fixed point with eight decimals.                                        *)
(***************************************************************************)
EXTENDS Integers, Sequences, FiniteSets, TLC

VARIABLES
    checks,        \* score aggregation: the four `passed` values
    overallScore,  \* score aggregation: the computed score (undefined before the call)
    docScore,      \* score aggregation: the document's validation.overallScore
    tsExif,        \* validateTimestamp: its exifData argument
    tsNow,         \* validateTimestamp: the value of new Date()
    tsResult,      \* validateTimestamp: its return value (undefined before the call)
    locBuffer,     \* validateLocation: the image bytes exifData is extracted from
    locUserGPS,    \* validateLocation: its userGPS argument
    locWard,       \* validateLocation: its ward argument
    locResult,     \* validateLocation: its return value (undefined before the call)
    router,        \* server: which routes file is mounted on /api/incidents
    incidents,     \* server: the rows of the incidents table, in insertion order
    storage,       \* server: the object paths held by the storage bucket
    clock,         \* server: milliseconds elapsed on the server's clock
    req,           \* server: the POST /api/incidents requests, by request number
    qFile,         \* validateQuality: its file argument
    qExif,         \* validateQuality: its exifData argument
    qResult,       \* validateQuality: its return value (undefined before the call)
    aiEnv,         \* validateAIGenerated: process.env.AI_DETECTION_ENABLED === 'true'
    aiRandom,      \* validateAIGenerated: the value of Math.random(), in RandomSteps-ths
    aiClassifier,  \* validateAIGenerated: what the external classifier would answer
    aiResult,      \* validateAIGenerated: its return value (undefined before the call)
    rpInput,       \* validator: the inputs of one submission
    rpReports,     \* validator: the reports of its successive runs on rpInput
    validationResults, \* browser: the four client-side results (null before a check)
    scoreValue,    \* browser: textContent of the element scoreValue
    browser,       \* browser: the form being filled in and its submission
    patches,       \* server: the answers to the PATCH /api/incidents/:id requests
    exports        \* server: the answers to the GET /api/incidents/training/export requests

scoreVars == <<checks, overallScore, docScore>>
tsVars == <<tsExif, tsNow, tsResult>>
locVars == <<locBuffer, locUserGPS, locWard, locResult>>
serverVars == <<router, incidents, storage, clock, req>>

qualityVars == <<qFile, qExif, qResult>>
aiVars == <<aiEnv, aiRandom, aiClassifier, aiResult>>
reportVars == <<rpInput, rpReports>>
browserVars == <<validationResults, scoreValue, browser>>
patchVars == <<patches>>
exportVars == <<exports>>

vars == <<scoreVars, tsVars, locVars, serverVars,
          qualityVars, aiVars, reportVars, browserVars, patchVars, exportVars>>

-----------------------------------------------------------------------------
(* JavaScript values *)

Undefined == [t |-> "undefined"]
Null == [t |-> "null"]
NaN == [t |-> "NaN"]
Num(n) == [t |-> "number", n |-> n]
Str(s) == [t |-> "string", s |-> s]
\* A string kept character by character, for the ones that get parsed.
Text(chars) == [t |-> "string", chars |-> chars]
Bool(b) == [t |-> "boolean", b |-> b]
Date(sec, ms) == [t |-> "date", sec |-> sec, ms |-> ms]

\* ToBoolean: undefined, null, NaN, 0, "" and false are falsy; objects
\* (Date included) are truthy.
Truthy(x) ==
    CASE x.t = "undefined" -> FALSE
      [] x.t = "null" -> FALSE
      [] x.t = "NaN" -> FALSE
      [] x.t = "number" -> x.n # 0
      [] x.t = "string" -> IF "chars" \in DOMAIN x THEN x.chars # <<>> ELSE x.s # ""
      [] x.t = "boolean" -> x.b
      [] OTHER -> TRUE

\* a || b
Or(a, b) == IF Truthy(a) THEN a ELSE b

\* a && b
And(a, b) == IF Truthy(a) THEN b ELSE a

Abs(n) == IF n < 0 THEN -n ELSE n

\* Math.round of the rational p / q (q > 0): the nearest integer, halves
\* towards plus infinity.
MathRound(p, q) == (2 * p + q) \div (2 * q)

-----------------------------------------------------------------------------
(* Score aggregation *)

\* The values a check's `passed` can take in the aggregation: a boolean, or
\* undefined when the check result is missing (`?.passed`).
CheckValues == {Bool(TRUE), Bool(FALSE), Undefined}

NumChecks == 4

\* checks.filter(check => check === true).length
passedChecks(c) == Cardinality({i \in DOMAIN c : c[i] = Bool(TRUE)})

\* checks.filter(check => check !== undefined).length
totalChecks(c) == Cardinality({i \in DOMAIN c : c[i] # Undefined})

\* Math.floor instead of Math.round.
overallScoreOfFloor(c) ==
    IF totalChecks(c) = 0 THEN Num(0)
    ELSE Num((passedChecks(c) * 100) \div totalChecks(c))

\* totalChecks === 0 ? 0 : Math.round((passedChecks / totalChecks) * 100)
overallScoreOf(c) ==
    IF totalChecks(c) = 0 THEN Num(0)
    ELSE Num(MathRound(passedChecks(c) * 100, totalChecks(c)))

\* The route's aggregation over the four results.
RouteOverallScore ==
    /\ overallScore = Undefined
    /\ overallScore' = overallScoreOf(checks)
    /\ UNCHANGED <<checks, docScore, tsVars, locVars, serverVars,
                 qualityVars, aiVars, reportVars, browserVars, patchVars, exportVars>>

\* incidentSchema.methods.calculateValidationScore: returns 0 without
\* touching the document when no check is defined, otherwise stores the
\* score in this.validation.overallScore and returns it.
calculateValidationScore ==
    /\ overallScore = Undefined
    /\ IF totalChecks(checks) = 0
       THEN /\ overallScore' = Num(0)
            /\ UNCHANGED docScore
       ELSE /\ docScore' = Num(MathRound(passedChecks(checks) * 100, totalChecks(checks)))
            /\ overallScore' = docScore'
    /\ UNCHANGED <<checks, tsVars, locVars, serverVars,
                 qualityVars, aiVars, reportVars, browserVars, patchVars, exportVars>>

-----------------------------------------------------------------------------
(* Fixed-point arithmetic: a real r is the integer r * 10^8, truncated *)

Scale8 == 100000000

Max(a, b) == IF a >= b THEN a ELSE b

\* a / n truncated towards zero (n > 0).
Div(a, n) == IF a < 0 THEN -((-a) \div n) ELSE a \div n

\* a * b / 10^8 without leaving 32 bits: both factors are split at 10^4.
Mul8(a, b) ==
    LET x == Abs(a)
        y == Abs(b)
        xh == x \div 10000
        xl == x % 10000
        yh == y \div 10000
        yl == y % 10000
        m == xh * yh + (xh * yl + xl * yh + (xl * yl) \div 10000) \div 10000
    IN  IF (a < 0) # (b < 0) THEN -m ELSE m

\* Sum of the alternating Taylor series whose current term is `term`:
\* the next term is -term * x^2 / (n * (n + 1)).
RECURSIVE Series(_, _, _, _)
Series(term, x, n, sum) ==
    IF term = 0 THEN sum
    ELSE LET next == -Div(Mul8(Div(Mul8(term, x), n), x), n + 1)
         IN  Series(next, x, n + 2, sum + next)

\* Math.sin and Math.cos of x radians, |x| <= pi.
Sin8(x) == Series(x, x, 2, x)
Cos8(x) == Series(Scale8, x, 1, Scale8)

\* Math.sqrt on integers: the largest g with g * g <= n.
RECURSIVE SqrtFrom(_, _)
SqrtFrom(n, g) ==
    LET h == (g + n \div g) \div 2
    IN  IF h >= g THEN g ELSE SqrtFrom(n, h)

ISqrt(n) == IF n <= 0 THEN 0 ELSE SqrtFrom(n, n)

HalfPi8 == 157079632

\* The angle in [0, pi/2] whose sine is h: bisection on Sin8.
RECURSIVE AsinBetween(_, _, _)
AsinBetween(h, lo, hi) ==
    IF hi - lo <= 1 THEN lo
    ELSE LET mid == (lo + hi) \div 2
         IN  IF Sin8(mid) <= h THEN AsinBetween(h, mid, hi)
             ELSE AsinBetween(h, lo, mid)

Asin8(h) == IF h >= Scale8 THEN HalfPi8 ELSE AsinBetween(h, 0, HalfPi8)

\* x * Math.PI / 180 for x in micro-degrees.
ToRad8(x) == Mul8(x, 174532925)

-----------------------------------------------------------------------------
(* Haversine distance *)

\* Earth radius in decimetres (R = 6371e3 metres).
R == 63710000

\* Decimetres per metre: calculateDistance returns decimetres here.
DM == 10

\* Math.sqrt(a) for a = s1^2 + u * v.  The three factors are scaled down
\* together so that the products fit, the root is scaled back.
SqrtA8(s1, u, v) ==
    LET k == Max(Abs(s1), Max(Abs(u), Abs(v))) \div 30000 + 1
        t1 == Abs(s1) \div k
        tu == Abs(u) \div k
        tv == Abs(v) \div k
    IN  k * ISqrt(t1 * t1 + tu * tv)

\* The longitude term left out: a = sin(dphi/2)^2.
calculateDistanceMeridian(lat1, lon1, lat2, lon2) ==
    LET dphi == ToRad8(lat2 - lat1)
        s1 == Sin8(Div(dphi, 2))
        c == 2 * Asin8(SqrtA8(s1, 0, 0))
    IN  Mul8(c, R)

\* R * c with c = 2 * atan2(sqrt(a), sqrt(1 - a)) = 2 * asin(sqrt(a)),
\* a = sin(dphi/2)^2 + cos(phi1) * cos(phi2) * sin(dlambda/2)^2.
\* Arguments are micro-degrees, the result is decimetres.
calculateDistance(lat1, lon1, lat2, lon2) ==
    LET phi1 == ToRad8(lat1)
        phi2 == ToRad8(lat2)
        dphi == ToRad8(lat2 - lat1)
        dlambda == ToRad8(lon2 - lon1)
        s1 == Sin8(Div(dphi, 2))
        s2 == Sin8(Div(dlambda, 2))
        c == 2 * Asin8(SqrtA8(s1, Mul8(Cos8(phi1), s2), Mul8(Cos8(phi2), s2)))
    IN  Mul8(c, R)

-----------------------------------------------------------------------------
(* EXIF extraction *)

\* An object literal: every object carries the tag "object" and is truthy.
\* exifData is null or
\*   [t, dateTime, dateTimeOriginal, gps, camera, imageSize]
\* with gps null or [t, latitude, longitude, altitude] and imageSize null
\* or [t, width, height].
Gps(lat, lon, alt) ==
    [t |-> "object", latitude |-> lat, longitude |-> lon, altitude |-> alt]

ImageSize(w, h) == [t |-> "object", width |-> w, height |-> h]

Camera(make, model, software) ==
    [t |-> "object", make |-> make, model |-> model, software |-> software]

ExifData(dateTime, dateTimeOriginal, gps, camera, imageSize) ==
    [t |-> "object", dateTime |-> dateTime,
     dateTimeOriginal |-> dateTimeOriginal, gps |-> gps, camera |-> camera,
     imageSize |-> imageSize]

\* -x for a number, NaN stays NaN.
Neg(x) == IF x.t = "number" THEN Num(-x.n) ELSE x

\* convertGPSToDecimal(coordinate, ref)
convertGPSToDecimal(coordinate, ref) ==
    IF ~Truthy(coordinate) THEN Null
    ELSE IF ref = Str("S") \/ ref = Str("W") THEN Neg(coordinate)
    ELSE coordinate

\* extractEXIF(buffer).  buffer.exif is what exif-parser makes of the bytes:
\* null when parse() throws (the catch returns null), otherwise
\* [t, tags, imageSize]; tags.DateTime and tags.DateTimeOriginal are seconds
\* since 1970.
extractEXIF(buffer) ==
    IF buffer.exif = Null THEN Null
    ELSE LET exif == buffer.exif.tags
             imageSize == buffer.exif.imageSize
         IN  ExifData(
                 IF Truthy(exif.DateTime) THEN Date(exif.DateTime.n, 0) ELSE Null,
                 IF Truthy(exif.DateTimeOriginal)
                     THEN Date(exif.DateTimeOriginal.n, 0) ELSE Null,
                 IF Truthy(And(exif.GPSLatitude, exif.GPSLongitude))
                     THEN Gps(convertGPSToDecimal(exif.GPSLatitude, exif.GPSLatitudeRef),
                              convertGPSToDecimal(exif.GPSLongitude, exif.GPSLongitudeRef),
                              exif.GPSAltitude)
                     ELSE Null,
                 Camera(exif.Make, exif.Model, exif.Software),
                 IF Truthy(imageSize)
                     THEN ImageSize(imageSize.width, imageSize.height) ELSE Null)

-----------------------------------------------------------------------------
(* validateTimestamp *)

MsPerHour == 1000 * 60 * 60

\* A number with one decimal place, kept as its count of tenths.
Dec1(n) == [t |-> "number/10", x10 |-> n]

\* now - photoDateTime, in milliseconds.
DiffMs(now, photoDateTime) ==
    (now.sec - photoDateTime.sec) * 1000 + (now.ms - photoDateTime.ms)

\* A missing timestamp lets the photo through.
noTimestampResultOpen(result) ==
    [result EXCEPT !.message = "No timestamp found in photo metadata",
                   !.passed = TRUE]

\* The early return for a photo without any EXIF timestamp.
noTimestampResult(result) ==
    [result EXCEPT !.message = "No timestamp found in photo metadata",
                   !.passed = FALSE]

\* dateTime preferred over dateTimeOriginal.
photoDateTimeOfSwapped(exifData) ==
    Or(exifData.dateTime, exifData.dateTimeOriginal)

\* exifData.dateTimeOriginal || exifData.dateTime
photoDateTimeOf(exifData) ==
    Or(exifData.dateTimeOriginal, exifData.dateTime)

\* The upper bound of the second band excluded (diffHours < 48).
timestampBandStrict(result, diffMs) ==
    IF diffMs < 0 THEN
        [result EXCEPT !.message = "Photo timestamp is in the future - possible clock issue",
                       !.passed = FALSE]
    ELSE IF diffMs <= 24 * MsPerHour THEN
        [result EXCEPT !.message = "Timestamp verified - Photo taken within 24 hours",
                       !.passed = TRUE]
    ELSE IF diffMs < 48 * MsPerHour THEN
        [result EXCEPT !.message = "Photo is 1-2 days old - acceptable but verify",
                       !.passed = TRUE]
    ELSE
        [result EXCEPT !.message = "Photo is ${Math.round(diffHours / 24)} days old - too old",
                       !.passed = FALSE]

\* The four bands of diffHours = diffMs / (1000 * 60 * 60), compared
\* unrounded: diffHours < 0, <= 24, <= 48, else.
timestampBand(result, diffMs) ==
    IF diffMs < 0 THEN
        [result EXCEPT !.message = "Photo timestamp is in the future - possible clock issue",
                       !.passed = FALSE]
    ELSE IF diffMs <= 24 * MsPerHour THEN
        [result EXCEPT !.message = "Timestamp verified - Photo taken within 24 hours",
                       !.passed = TRUE]
    ELSE IF diffMs <= 48 * MsPerHour THEN
        [result EXCEPT !.message = "Photo is 1-2 days old - acceptable but verify",
                       !.passed = TRUE]
    ELSE
        [result EXCEPT !.message = "Photo is ${Math.round(diffHours / 24)} days old - too old",
                       !.passed = FALSE]

\* Rounded to whole hours instead of tenths.
hoursDifferenceOfWhole(diffMs) == Dec1(10 * MathRound(diffMs, MsPerHour))

\* Math.round(diffHours * 10) / 10, diffHours * 10 being
\* diffMs / (MsPerHour / 10).
hoursDifferenceOf(diffMs) == Dec1(MathRound(diffMs, MsPerHour \div 10))

\* validateTimestamp(exifData); uploadDateTime and now are the two values
\* of new Date() it reads.
validateTimestamp(exifData, uploadDateTime, now) ==
    LET result == [passed |-> FALSE, message |-> "", exifDateTime |-> Null,
                   uploadDateTime |-> uploadDateTime, hoursDifference |-> Null]
    IN  IF ~Truthy(exifData)
           \/ (~Truthy(exifData.dateTime) /\ ~Truthy(exifData.dateTimeOriginal))
        THEN noTimestampResult(result)
        ELSE LET photoDateTime == photoDateTimeOf(exifData)
                 diffMs == DiffMs(now, photoDateTime)
             IN  timestampBand([result EXCEPT !.exifDateTime = photoDateTime,
                                              !.hoursDifference = hoursDifferenceOf(diffMs)],
                               diffMs)

-----------------------------------------------------------------------------
(* validateLocation *)

\* exifData && exifData.gps && exifData.gps.latitude && exifData.gps.longitude
hasExifGPSOf(exifData) ==
    /\ Truthy(exifData)
    /\ Truthy(exifData.gps)
    /\ Truthy(exifData.gps.latitude)
    /\ Truthy(exifData.gps.longitude)

\* userGPS && userGPS.latitude && userGPS.longitude
hasUserGPSOf(userGPS) ==
    /\ Truthy(userGPS)
    /\ Truthy(userGPS.latitude)
    /\ Truthy(userGPS.longitude)

\* The three bands of the EXIF-to-device distance: < 500, < 2000, else.
distanceBand(result, distance) ==
    IF distance < 500 * DM THEN
        [result EXCEPT !.message = "GPS coordinates verified - EXIF matches user location",
                       !.exifGpsMatch = TRUE, !.passed = TRUE]
    ELSE IF distance < 2000 * DM THEN
        [result EXCEPT !.message = "EXIF GPS differs from user location by ${Math.round(distance)}m",
                       !.exifGpsMatch = FALSE, !.passed = TRUE]
    ELSE
        [result EXCEPT !.message = "EXIF GPS far from user location (${Math.round(distance)}m) - suspicious",
                       !.exifGpsMatch = FALSE, !.passed = FALSE]

\* The branches taken when EXIF GPS and device GPS are not both usable:
\* else if (hasUserGPS) ... else if (ward) ... else ...
fallbackBranch(result, hasUserGPS, ward) ==
    IF hasUserGPS THEN
        [result EXCEPT !.message = "GPS captured but no EXIF GPS - acceptable",
                       !.passed = TRUE]
    ELSE IF Truthy(ward) THEN
        [result EXCEPT !.message = "Ward selected but GPS recommended for better accuracy",
                       !.passed = TRUE]
    ELSE
        [result EXCEPT !.message = "No location data provided", !.passed = FALSE]

\* validateLocation(exifData, userGPS, ward)
validateLocation(exifData, userGPS, ward) ==
    LET result == [passed |-> FALSE, message |-> "", exifGpsMatch |-> FALSE,
                   distanceFromWard |-> Null]
        hasExifGPS == hasExifGPSOf(exifData)
        hasUserGPS == hasUserGPSOf(userGPS)
    IN  IF hasExifGPS /\ hasUserGPS THEN
            LET distance == calculateDistance(
                                exifData.gps.latitude.n, exifData.gps.longitude.n,
                                userGPS.latitude.n, userGPS.longitude.n)
            IN  distanceBand(
                    [result EXCEPT !.distanceFromWard = Num(MathRound(distance, DM))],
                    distance)
        ELSE fallbackBranch(result, hasUserGPS, ward)

-----------------------------------------------------------------------------
(* validateQuality *)

\* The lower size bound rejected (file.size <= minSize).
validateQualityExclusive(file, exifData) ==
    LET result == [passed |-> FALSE, message |-> "", resolution |-> "",
                   fileSize |-> file.size, format |-> file.mimetype]
        hasSize == Truthy(exifData) /\ Truthy(exifData.imageSize)
    IN  IF file.size <= 50 * 1024 THEN
            [result EXCEPT !.message = "File size very small - low quality image"]
        ELSE IF file.size > 10 * 1024 * 1024 THEN
            [result EXCEPT !.message = "File size too large - please compress"]
        ELSE IF hasSize
                /\ exifData.imageSize.width.n * exifData.imageSize.height.n < 640 * 480 THEN
            [result EXCEPT !.resolution = "${width}x${height}",
                           !.message = "Low resolution (${result.resolution}) - minimum 640x480"]
        ELSE IF file.mimetype \notin {"image/jpeg", "image/jpg", "image/png"} THEN
            [result EXCEPT !.resolution = IF hasSize THEN "${width}x${height}" ELSE "",
                           !.message = "Invalid format - only JPEG/PNG allowed"]
        ELSE
            [result EXCEPT !.resolution = IF hasSize THEN "${width}x${height}" ELSE "",
                           !.message = "Image quality acceptable",
                           !.passed = TRUE]

\* The format checked before the resolution.
validateQualityFormatFirst(file, exifData) ==
    LET result == [passed |-> FALSE, message |-> "", resolution |-> "",
                   fileSize |-> file.size, format |-> file.mimetype]
        hasSize == Truthy(exifData) /\ Truthy(exifData.imageSize)
    IN  IF file.size < 50 * 1024 THEN
            [result EXCEPT !.message = "File size very small - low quality image"]
        ELSE IF file.size > 10 * 1024 * 1024 THEN
            [result EXCEPT !.message = "File size too large - please compress"]
        ELSE IF file.mimetype \notin {"image/jpeg", "image/jpg", "image/png"} THEN
            [result EXCEPT !.message = "Invalid format - only JPEG/PNG allowed"]
        ELSE IF hasSize
                /\ exifData.imageSize.width.n * exifData.imageSize.height.n < 640 * 480 THEN
            [result EXCEPT !.resolution = "${width}x${height}",
                           !.message = "Low resolution (${result.resolution}) - minimum 640x480"]
        ELSE
            [result EXCEPT !.resolution = IF hasSize THEN "${width}x${height}" ELSE "",
                           !.message = "Image quality acceptable",
                           !.passed = TRUE]

\* validateQuality(file, exifData); file is [size, mimetype].
validateQuality(file, exifData) ==
    LET result == [passed |-> FALSE, message |-> "", resolution |-> "",
                   fileSize |-> file.size, format |-> file.mimetype]
        minSize == 50 * 1024
        maxSize == 10 * 1024 * 1024
        hasSize == Truthy(exifData) /\ Truthy(exifData.imageSize)
        minResolution == 640 * 480
    IN  IF file.size < minSize THEN
            [result EXCEPT !.message = "File size very small - low quality image"]
        ELSE IF file.size > maxSize THEN
            [result EXCEPT !.message = "File size too large - please compress"]
        ELSE IF hasSize
                /\ exifData.imageSize.width.n * exifData.imageSize.height.n < minResolution THEN
            [result EXCEPT !.resolution = "${width}x${height}",
                           !.message = "Low resolution (${result.resolution}) - minimum 640x480"]
        ELSE IF file.mimetype \notin {"image/jpeg", "image/jpg", "image/png"} THEN
            [result EXCEPT !.resolution = IF hasSize THEN "${width}x${height}" ELSE "",
                           !.message = "Invalid format - only JPEG/PNG allowed"]
        ELSE
            [result EXCEPT !.resolution = IF hasSize THEN "${width}x${height}" ELSE "",
                           !.message = "Image quality acceptable",
                           !.passed = TRUE]

-----------------------------------------------------------------------------
(* validateAIGenerated *)

\* validateAIGenerated(file) with AI_DETECTION_ENABLED = aiEnabled;
\* percent is Math.round((0.85 + Math.random() * 0.15) * 100), an integer
\* in 85 .. 100.  With detection enabled the API call is commented out and
\* the initial result is returned.
validateAIGenerated(aiEnabled, percent) ==
    LET result == [passed |-> TRUE, confidence |-> 0, message |-> "",
                   apiResponse |-> Null]
    IN  IF ~aiEnabled THEN
            [result EXCEPT !.confidence = percent,
                           !.message = "Real photo detected (simulated)",
                           !.passed = TRUE]
        ELSE result

-----------------------------------------------------------------------------
(* parseFloat *)

DigitVal(c) ==
    CASE c = "0" -> 0 [] c = "1" -> 1 [] c = "2" -> 2 [] c = "3" -> 3
      [] c = "4" -> 4 [] c = "5" -> 5 [] c = "6" -> 6 [] c = "7" -> 7
      [] c = "8" -> 8 [] c = "9" -> 9 [] OTHER -> -1

IsDigit(c) == DigitVal(c) >= 0

\* Number of leading digits of cs from position i on.
RECURSIVE DigitRun(_, _)
DigitRun(cs, i) ==
    IF i <= Len(cs) /\ IsDigit(cs[i]) THEN 1 + DigitRun(cs, i + 1) ELSE 0

\* Value of the digits cs[i .. i + n - 1].
RECURSIVE DigitsValue(_, _, _)
DigitsValue(cs, i, n) ==
    IF n = 0 THEN 0
    ELSE DigitsValue(cs, i, n - 1) * 10 + DigitVal(cs[i + n - 1])

Pow10(n) == CASE n = 0 -> 1 [] n = 1 -> 10 [] n = 2 -> 100 [] n = 3 -> 1000
              [] n = 4 -> 10000 [] n = 5 -> 100000 [] OTHER -> 1000000

\* parseFloat(x): the longest numeric prefix [-]digits[.digits] of the
\* string, NaN when there is none (undefined included).  The number is kept
\* in millionths, digits after the sixth decimal are dropped.
parseFloat(x) ==
    IF x.t # "string" THEN NaN
    ELSE LET cs == x.chars
             neg == Len(cs) > 0 /\ cs[1] = "-"
             i0 == IF neg THEN 2 ELSE 1
             ni == DigitRun(cs, i0)
             dot == i0 + ni <= Len(cs) /\ cs[i0 + ni] = "."
             nf == IF dot THEN DigitRun(cs, i0 + ni + 1) ELSE 0
             kept == IF nf > 6 THEN 6 ELSE nf
             mag == DigitsValue(cs, i0, ni) * 1000000
                    + DigitsValue(cs, i0 + ni + 1, kept) * Pow10(6 - kept)
         IN  IF ni = 0 /\ nf = 0 THEN NaN
             ELSE Num(IF neg THEN -mag ELSE mag)

-----------------------------------------------------------------------------
(* Inputs *)

\* The instant the model's clocks start from: 2026-11-06T12:00:00Z, in
\* seconds since 1970.
NowSec == 1793966400

Tags(dateTime, dateTimeOriginal, lat, lon) ==
    [DateTime |-> dateTime, DateTimeOriginal |-> dateTimeOriginal,
     GPSLatitude |-> lat, GPSLatitudeRef |-> IF lat = Undefined THEN Undefined ELSE Str("N"),
     GPSLongitude |-> lon, GPSLongitudeRef |-> IF lon = Undefined THEN Undefined ELSE Str("E"),
     GPSAltitude |-> Undefined,
     Make |-> Undefined, Model |-> Undefined, Software |-> Undefined]

\* What exif-parser makes of a JPEG with these tags and pixel dimensions.
Parsed(tags, imageSize) == [t |-> "object", tags |-> tags, imageSize |-> imageSize]

\* The bytes of an image: their identity, whether sharp can decode them,
\* and what exif-parser makes of them (null when parse() throws).
Buffer(bytes, decodable, exif) ==
    [bytes |-> bytes, decodable |-> decodable, exif |-> exif]

UserGPS(lat, lon, accuracy) ==
    [t |-> "object", latitude |-> lat, longitude |-> lon, accuracy |-> accuracy]

\* Seconds between the EXIF timestamp and NowSec: 1 s in the future, now,
\* 1 s, 3 min, 24 h, 24 h + 1 s, 48 h, 48 h + 1 s, 48 h + 3 min, 3 days.
TsOffsets == {-1, 0, 1, 180, 86400, 86401, 172800, 172801, 172980, 259200}

\* An EXIF timestamp tag: missing, 0, or seconds since 1970.
TsTagValues == {Undefined, Num(0)} \cup {Num(NowSec - o) : o \in TsOffsets}

\* Milliseconds of the validation instant.
NowMsValues == {0, 1, 999}

TsBuffers ==
    {Buffer("ts", TRUE, Null)}
    \cup {Buffer("ts", TRUE, Parsed(Tags(dt, dto, Undefined, Undefined), Undefined)) :
            dt \in TsTagValues, dto \in TsTagValues}

\* Connaught Place, Delhi, in micro-degrees.
Lat0 == 28613900
Lon0 == 77209000

\* EXIF GPS tags: missing, 0, or the reference point.
LocBuffers ==
    {Buffer("loc", TRUE, Null)}
    \cup {Buffer("loc", TRUE, Parsed(Tags(Undefined, Undefined, lat, lon), Undefined)) :
            lat \in {Undefined, Num(0), Num(Lat0)},
            lon \in {Undefined, Num(0), Num(Lon0)}}

\* Device readings: the reference point; points 498 m, 503 m, 1998 m and
\* 2003 m north of it; (28.6129, 77.2295) and (28.6140, 77.2091); and
\* readings on the equator and on the prime meridian.
LocPoints ==
    {<<Lat0, Lon0>>, <<Lat0 + 4480, Lon0>>, <<Lat0 + 4520, Lon0>>,
     <<Lat0 + 17970, Lon0>>, <<Lat0 + 18010, Lon0>>,
     <<28612900, 77229500>>, <<28614000, 77209100>>,
     <<0, Lon0>>, <<Lat0, 0>>, <<0, 0>>}

LocUserGPSs ==
    {Null} \cup {UserGPS(Num(pt[1]), Num(pt[2]), Null) : pt \in LocPoints}

LocWards == {Undefined, Str(""), Str("Rohini")}

-----------------------------------------------------------------------------
(* The validators as operations *)

\* A score aggregation over any four `passed` values.
ScoreInputs ==
    /\ checks \in [1 .. NumChecks -> CheckValues]
    /\ overallScore = Undefined
    /\ docScore = Undefined

\* validateTimestamp(exifData) at the instant tsNow.
ValidateTimestamp ==
    /\ tsResult = Undefined
    /\ tsResult' = validateTimestamp(tsExif, tsNow, tsNow)
    /\ UNCHANGED <<tsExif, tsNow, scoreVars, locVars, serverVars,
                 qualityVars, aiVars, reportVars, browserVars, patchVars, exportVars>>

TimestampInputs ==
    /\ tsExif \in {extractEXIF(b) : b \in TsBuffers}
    /\ tsNow \in {Date(NowSec, ms) : ms \in NowMsValues}
    /\ tsResult = Undefined

\* validateLocation(extractEXIF(buffer), userGPS, ward)
ValidateLocation ==
    /\ locResult = Undefined
    /\ locResult' = validateLocation(extractEXIF(locBuffer), locUserGPS, locWard)
    /\ UNCHANGED <<locBuffer, locUserGPS, locWard, scoreVars, tsVars, serverVars,
                 qualityVars, aiVars, reportVars, browserVars, patchVars, exportVars>>

LocationInputs ==
    /\ locBuffer \in LocBuffers
    /\ locUserGPS \in LocUserGPSs
    /\ locWard \in LocWards
    /\ locResult = Undefined

\* The values of the variables an operation does not use.
ScoreIdle ==
    /\ checks = <<>>
    /\ overallScore = Undefined
    /\ docScore = Undefined

TimestampIdle ==
    /\ tsExif = Null
    /\ tsNow = Date(NowSec, 0)
    /\ tsResult = Undefined

LocationIdle ==
    /\ locBuffer = Buffer("loc", TRUE, Null)
    /\ locUserGPS = Null
    /\ locWard = Undefined
    /\ locResult = Undefined

QualityIdle ==
    /\ qFile = Null
    /\ qExif = Null
    /\ qResult = Undefined

AiIdle ==
    /\ aiEnv = FALSE
    /\ aiRandom = 0
    /\ aiClassifier = Null
    /\ aiResult = Undefined

ReportIdle ==
    /\ rpInput = Null
    /\ rpReports = <<>>

\* The page before anything is captured: let validationResults = {...},
\* all four null; nothing is being submitted.
BrowserIdle ==
    /\ validationResults = [timestamp |-> Null, aiGenerated |-> Null,
                            location |-> Null, quality |-> Null]
    /\ scoreValue = Text(<<>>)
    /\ browser = Null

\* No PATCH request has been made.
PatchIdle == patches = <<>> /\ exports = <<>>

\* Everything but the server, idle.
ValidatorsIdle ==
    ScoreIdle /\ TimestampIdle /\ LocationIdle /\ QualityIdle /\ AiIdle /\ ReportIdle

-----------------------------------------------------------------------------
(* The incidents table and the storage bucket *)

Columns ==
    {"id", "type", "ward", "description",
     "gps_latitude", "gps_longitude", "gps_accuracy", "location_point", "ward_verified",
     "image_filename", "image_original_name", "image_path", "image_thumbnail_path",
     "image_size", "image_mime_type", "image_hash", "image_url", "image_storage_path",
     "exif_date_time", "exif_date_time_original",
     "exif_gps_latitude", "exif_gps_longitude", "exif_gps_altitude",
     "exif_camera_make", "exif_camera_model", "exif_camera_software",
     "exif_image_width", "exif_image_height",
     "validation_timestamp", "validation_ai_generated", "validation_location",
     "validation_quality", "validation_overall_score",
     "status", "submitted_at", "reviewed_at", "reviewed_by", "created_at", "updated_at",
     "labels", "used_for_training", "training_dataset_version"}

\* The columns declared NOT NULL (id, a BIGSERIAL, is filled by the table).
NotNullColumns == {"type", "ward", "image_filename"}

\* A column's DEFAULT, NULL when it has none.
ColumnDefault(c, now) ==
    CASE c = "ward_verified" -> Bool(FALSE)
      [] c = "status" -> Str("pending")
      [] c \in {"submitted_at", "created_at", "updated_at"} -> now
      [] c = "labels" -> Str("[]")
      [] c = "used_for_training" -> Bool(FALSE)
      [] OTHER -> Null

\* The row an INSERT of `data` makes: a key whose value is undefined is
\* not sent, a column that is not sent takes its DEFAULT, and the triggers
\* set location_point when both GPS columns are non-null.
NewRow(data, id, now) ==
    LET sent == {c \in DOMAIN data : data[c] # Undefined}
        base == [c \in Columns |->
                    IF c = "id" THEN Num(id)
                    ELSE IF c \in sent THEN data[c]
                    ELSE ColumnDefault(c, now)]
    IN  IF base.gps_latitude # Null /\ base.gps_longitude # Null
        THEN [base EXCEPT !.location_point =
                 [t |-> "point", x |-> base.gps_longitude, y |-> base.gps_latitude]]
        ELSE base

IncidentTypes == {Str("waterlogging"), Str("pothole"), Str("drainage")}

\* 'resolved' allowed as well.
IncidentStatusesWithResolved ==
    {Str("pending"), Str("verified"), Str("rejected"), Str("duplicate"), Str("resolved")}

IncidentStatuses == {Str("pending"), Str("verified"), Str("rejected"), Str("duplicate")}

\* The table without its NOT NULL constraints.
RowAcceptedNullable(row, table) ==
    /\ row.type \in IncidentTypes
    /\ row.validation_overall_score = Null
       \/ (row.validation_overall_score.n >= 0 /\ row.validation_overall_score.n <= 100)
    /\ row.status = Null \/ row.status \in IncidentStatuses
    /\ row.image_hash = Null
       \/ \A i \in DOMAIN table : table[i].image_hash # row.image_hash

\* The table without UNIQUE(image_hash).
RowAcceptedNoUnique(row, table) ==
    /\ \A c \in NotNullColumns : row[c] # Null
    /\ row.type \in IncidentTypes
    /\ row.validation_overall_score = Null
       \/ (row.validation_overall_score.n >= 0 /\ row.validation_overall_score.n <= 100)
    /\ row.status = Null \/ row.status \in IncidentStatuses

\* The constraints of the incidents table: NOT NULL, the CHECKs on type,
\* validation_overall_score and status, and UNIQUE(image_hash).
RowAccepted(row, table) ==
    /\ \A c \in NotNullColumns : row[c] # Null
    /\ row.type \in IncidentTypes
    /\ row.validation_overall_score = Null
       \/ (row.validation_overall_score.n >= 0 /\ row.validation_overall_score.n <= 100)
    /\ row.status = Null \/ row.status \in IncidentStatuses
    /\ row.image_hash = Null
       \/ \A i \in DOMAIN table : table[i].image_hash # row.image_hash

\* calculateFileHash(buffer): SHA-256 of the bytes, taken as collision free.
calculateFileHash(buffer) == [t |-> "string", sha256 |-> buffer.bytes]

\* `incident-${Date.now()}-${fileHash.substring(0, 8)}.jpg`
Filename(now, fileHash) ==
    [t |-> "string", prefix |-> "incident-", time |-> now, hash8 |-> fileHash.sha256]

\* The object path of an upload: filename for the image,
\* `thumbnails/thumb-${filename}` for the thumbnail.
ImagePath(filename) == [t |-> "string", dir |-> "", name |-> filename]
ThumbnailPath(filename) == [t |-> "string", dir |-> "thumbnails/thumb-", name |-> filename]

\* getPublicUrl(path).publicUrl
PublicUrl(path) == [t |-> "string", url |-> path]

-----------------------------------------------------------------------------
(* POST /api/incidents *)

\* The two routes files of the repository that define router.post('/'):
\* backend/routes/incidents.js, which server.js mounts, and the longer one.
Routers == {"incidents.js", "part_001"}

\* Number of POST requests of a run.
MaxRequests == 2

\* Milliseconds the server clock advances during a run.
MaxClock == 1

Requests == 1 .. MaxRequests

\* process.env.AI_DETECTION_ENABLED === 'true'; the variable is not set.
AiDetectionEnabled == FALSE

\* The simulated confidence drawn in the server runs.
AiPercents == {92}

File(buffer, size, mimetype) ==
    [t |-> "object", buffer |-> buffer, size |-> size, mimetype |-> mimetype,
     originalname |-> Undefined]

Body(ward, type, gpsLatitude, gpsLongitude) ==
    [ward |-> ward, type |-> type, description |-> Undefined,
     gpsLatitude |-> gpsLatitude, gpsLongitude |-> gpsLongitude,
     gpsAccuracy |-> IF gpsLatitude = Undefined THEN Undefined ELSE Text(<<"1", "2">>)]

Submission(file, body) == [file |-> file, body |-> body]

IdleRequest ==
    [pc |-> "idle", input |-> Null, exifData |-> Null, fileHash |-> Null,
     userGPS |-> Null, validationResults |-> Null, overallScore |-> Null,
     filename |-> Null, imageUpload |-> Null, thumbnailUpload |-> Null,
     response |-> Null]

\* res.status(status).json(...); id is the saved incident's, for 201.
Response(status, error, id) == [status |-> status, error |-> error, id |-> id]

Respond(r, status, error) ==
    [req EXCEPT ![r].pc = "done", ![r].response = Response(status, error, Null)]

\* The same answer to a request that is only now being received.
Reject(r, input, status, error) ==
    [req EXCEPT ![r].pc = "done", ![r].input = input,
                ![r].response = Response(status, error, Null)]

\* new Date() on the server.
ServerNow == Date(NowSec, clock)

AllowedTypes == {"image/jpeg", "image/jpg", "image/png"}

\* limits.fileSize: parseInt(process.env.MAX_FILE_SIZE) || 10 * 1024 * 1024
MaxFileSize == 10 * 1024 * 1024

\* upload.single('image') and the synchronous head of the handler: multer's
\* fileFilter and size limit, the 400 answers, extractEXIF and the hash, up
\* to the call of checkDuplicateIncident.
Receive(r, input) ==
    /\ req[r].pc = "idle"
    /\ LET file == input.file
           body == input.body
       IN  req' =
             IF file # Undefined /\ file.mimetype \notin AllowedTypes THEN
                 Reject(r, input, 500, "Invalid file type. Only JPEG and PNG allowed.")
             ELSE IF file # Undefined /\ file.size > MaxFileSize THEN
                 Reject(r, input, 500, "File too large")
             ELSE IF ~Truthy(file) THEN
                 Reject(r, input, 400, "No image file provided.")
             ELSE IF ~Truthy(body.ward) \/ ~Truthy(body.type) THEN
                 Reject(r, input, 400, "Missing required fields: ward and type")
             ELSE IF router = "part_001" /\ body.type \notin IncidentTypes THEN
                 Reject(r, input, 400, "Invalid incident type.")
             ELSE [req EXCEPT ![r].pc = "checkDuplicate",
                              ![r].input = input,
                              ![r].exifData = extractEXIF(file.buffer),
                              ![r].fileHash = calculateFileHash(file.buffer)]
    /\ UNCHANGED <<router, incidents, storage, clock, scoreVars, tsVars, locVars,
                 qualityVars, aiVars, reportVars, browserVars, patchVars, exportVars>>

\* userGPS of backend/routes/incidents.js: only gpsLatitude is tested, and
\* there is no accuracy.
userGPSShort(body) ==
    IF Truthy(body.gpsLatitude)
    THEN [t |-> "object", latitude |-> parseFloat(body.gpsLatitude),
          longitude |-> parseFloat(body.gpsLongitude)]
    ELSE Null

\* userGPS of the longer route.
userGPSFull(body) ==
    IF Truthy(And(body.gpsLatitude, body.gpsLongitude))
    THEN UserGPS(parseFloat(body.gpsLatitude), parseFloat(body.gpsLongitude),
                 Or(parseFloat(body.gpsAccuracy), Null))
    ELSE Null

\* The location check left out when no location input is usable.
ValidationResultsSkipping(file, exifData, userGPS, ward, now, percent) ==
    [timestamp |-> validateTimestamp(exifData, now, now),
     aiGenerated |-> validateAIGenerated(AiDetectionEnabled, percent),
     location |-> IF hasExifGPSOf(exifData) \/ hasUserGPSOf(userGPS) \/ Truthy(ward)
                  THEN validateLocation(exifData, userGPS, ward) ELSE Undefined,
     quality |-> validateQuality(file, exifData)]

\* The four checks of one submission.
ValidationResults(file, exifData, userGPS, ward, now, percent) ==
    [timestamp |-> validateTimestamp(exifData, now, now),
     aiGenerated |-> validateAIGenerated(AiDetectionEnabled, percent),
     location |-> validateLocation(exifData, userGPS, ward),
     quality |-> validateQuality(file, exifData)]

\* The `passed` value of a check result, for a boolean `passed`.
Passed(result) == Bool(result.passed)

\* checkDuplicateIncident answers (false when the query fails: its catch
\* returns false), then the handler runs to the first upload: 409 for a
\* duplicate, otherwise userGPS, the four checks, the score, the filename
\* and sharp, which throws on bytes it cannot decode.
CheckDuplicate(r, queryFails, percent) ==
    /\ req[r].pc = "checkDuplicate"
    /\ LET q == req[r]
           file == q.input.file
           body == q.input.body
           isDuplicate == ~queryFails
                          /\ \E i \in DOMAIN incidents : incidents[i].image_hash = q.fileHash
           userGPS == IF router = "part_001" THEN userGPSFull(body) ELSE userGPSShort(body)
           results == ValidationResults(file, q.exifData, userGPS, body.ward, ServerNow, percent)
           score == IF router = "part_001"
                    THEN overallScoreOf(<<Passed(results.timestamp), Passed(results.aiGenerated),
                                          Passed(results.location), Passed(results.quality)>>)
                    ELSE Null
       IN  req' =
             IF isDuplicate THEN Respond(r, 409, "Duplicate incident")
             ELSE IF ~file.buffer.decodable THEN
                 [Respond(r, 500, "Input buffer contains unsupported image format")
                     EXCEPT ![r].userGPS = userGPS, ![r].validationResults = results,
                            ![r].overallScore = score]
             ELSE [req EXCEPT ![r].pc = "uploadImage",
                              ![r].userGPS = userGPS,
                              ![r].validationResults = results,
                              ![r].overallScore = score,
                              ![r].filename = Filename(ServerNow, q.fileHash)]
    /\ UNCHANGED <<router, incidents, storage, clock, scoreVars, tsVars, locVars,
                 qualityVars, aiVars, reportVars, browserVars, patchVars, exportVars>>

\* What an upload returns: { path, url, fullPath }.
Uploaded(path) == [t |-> "object", path |-> path, url |-> PublicUrl(path), fullPath |-> path]

\* uploadImageToStorage(processedImage, filename): upsert is false, so an
\* existing path is an error; any error is thrown and answered 500.
UploadImage(r, storageFails) ==
    /\ req[r].pc = "uploadImage"
    /\ LET path == ImagePath(req[r].filename)
       IN  IF storageFails \/ path \in storage
           THEN /\ req' = Respond(r, 500, "Failed to upload image")
                /\ UNCHANGED storage
           ELSE /\ storage' = storage \cup {path}
                /\ req' = [req EXCEPT ![r].pc = "uploadThumbnail",
                                      ![r].imageUpload = Uploaded(path)]
    /\ UNCHANGED <<router, incidents, clock, scoreVars, tsVars, locVars,
                 qualityVars, aiVars, reportVars, browserVars, patchVars, exportVars>>

\* uploadThumbnailToStorage(thumbnailBuffer, `thumb-${filename}`)
UploadThumbnail(r, storageFails) ==
    /\ req[r].pc = "uploadThumbnail"
    /\ LET path == ThumbnailPath(req[r].filename)
       IN  IF storageFails \/ path \in storage
           THEN /\ req' = Respond(r, 500, "Failed to upload thumbnail")
                /\ UNCHANGED storage
           ELSE /\ storage' = storage \cup {path}
                /\ req' = [req EXCEPT ![r].pc = "saveIncident",
                                      ![r].thumbnailUpload = Uploaded(path)]
    /\ UNCHANGED <<router, incidents, clock, scoreVars, tsVars, locVars,
                 qualityVars, aiVars, reportVars, browserVars, patchVars, exportVars>>

\* incidentData of backend/routes/incidents.js.
incidentDataShort(q, now) ==
    [type |-> q.input.body.type,
     ward |-> q.input.body.ward,
     description |-> q.input.body.description,
     image_url |-> q.imageUpload.url,
     image_hash |-> q.fileHash,
     validation_overall_score |-> Num(100),
     status |-> Str("pending"),
     submitted_at |-> now]

\* userGPS?.latitude || null and userGPS?.longitude || null
gpsColumns(userGPS) ==
    [gps_latitude |-> IF userGPS = Null THEN Null ELSE Or(userGPS.latitude, Null),
     gps_longitude |-> IF userGPS = Null THEN Null ELSE Or(userGPS.longitude, Null)]

\* exifData?.a?.b || null
ExifField(exifData, a, b) ==
    IF exifData = Null \/ ~Truthy(exifData[a]) THEN Null ELSE Or(exifData[a][b], Null)

\* incidentData of the longer route.
incidentDataFull(q, now) ==
    LET body == q.input.body
        file == q.input.file
        exifData == q.exifData
        gps == gpsColumns(q.userGPS)
    IN  [type |-> body.type,
         ward |-> body.ward,
         description |-> Or(body.description, Str("")),
         gps_latitude |-> gps.gps_latitude,
         gps_longitude |-> gps.gps_longitude,
         gps_accuracy |-> IF q.userGPS = Null THEN Null ELSE Or(q.userGPS.accuracy, Null),
         ward_verified |-> Bool(FALSE),
         image_filename |-> q.filename,
         image_original_name |-> Or(file.originalname, Str("camera-capture.jpg")),
         image_path |-> q.imageUpload.path,
         image_thumbnail_path |-> q.thumbnailUpload.path,
         image_size |-> Num(file.size),
         image_mime_type |-> Str(file.mimetype),
         image_hash |-> q.fileHash,
         image_url |-> q.imageUpload.url,
         image_storage_path |-> q.imageUpload.path,
         exif_date_time |-> IF exifData = Null THEN Null ELSE Or(exifData.dateTime, Null),
         exif_date_time_original |->
             IF exifData = Null THEN Null ELSE Or(exifData.dateTimeOriginal, Null),
         exif_gps_latitude |-> ExifField(exifData, "gps", "latitude"),
         exif_gps_longitude |-> ExifField(exifData, "gps", "longitude"),
         exif_gps_altitude |-> ExifField(exifData, "gps", "altitude"),
         exif_camera_make |-> ExifField(exifData, "camera", "make"),
         exif_camera_model |-> ExifField(exifData, "camera", "model"),
         exif_camera_software |-> ExifField(exifData, "camera", "software"),
         exif_image_width |-> ExifField(exifData, "imageSize", "width"),
         exif_image_height |-> ExifField(exifData, "imageSize", "height"),
         validation_timestamp |-> q.validationResults.timestamp,
         validation_ai_generated |-> q.validationResults.aiGenerated,
         validation_location |-> q.validationResults.location,
         validation_quality |-> q.validationResults.quality,
         validation_overall_score |-> q.overallScore,
         status |-> Str("pending"),
         submitted_at |-> now]

\* saveIncident(incidentData): the insert; a refused row or a failed call
\* is thrown and answered 500, a saved row is answered 201.
SaveIncident(r, insertFails) ==
    /\ req[r].pc = "saveIncident"
    /\ LET data == IF router = "part_001" THEN incidentDataFull(req[r], ServerNow)
                   ELSE incidentDataShort(req[r], ServerNow)
           id == Len(incidents) + 1
           row == NewRow(data, id, ServerNow)
       IN  IF insertFails \/ ~RowAccepted(row, incidents)
           THEN /\ req' = Respond(r, 500, "Failed to save incident")
                /\ UNCHANGED incidents
           ELSE /\ incidents' = Append(incidents, row)
                /\ req' = [req EXCEPT ![r].pc = "done",
                                      ![r].response = Response(201, Null, id)]
    /\ UNCHANGED <<router, storage, clock, scoreVars, tsVars, locVars,
                 qualityVars, aiVars, reportVars, browserVars, patchVars, exportVars>>

\* Time passes on the server.
Tick ==
    /\ clock < MaxClock
    /\ clock' = clock + 1
    /\ UNCHANGED <<router, incidents, storage, req, scoreVars, tsVars, locVars,
                 qualityVars, aiVars, reportVars, browserVars, patchVars, exportVars>>

-----------------------------------------------------------------------------
(* The submissions of the server runs *)

KiB == 1024

\* A 1280x720 photo taken two hours ago at the reference point.
GoodBuffer ==
    Buffer("good", TRUE,
           Parsed(Tags(Undefined, Num(NowSec - 7200), Num(Lat0), Num(Lon0)),
                  ImageSize(Num(1280), Num(720))))

\* A screenshot: no EXIF segment at all.
BareBuffer == Buffer("bare", TRUE, Null)

\* An 800x600 photo taken three days ago, without GPS tags.
OldBuffer ==
    Buffer("old", TRUE,
           Parsed(Tags(Num(NowSec - 259200), Undefined, Undefined, Undefined),
                  ImageSize(Num(800), Num(600))))

\* A 320x240 photo taken three days ago at the reference point.
WorstBuffer ==
    Buffer("worst", TRUE,
           Parsed(Tags(Num(NowSec - 259200), Num(NowSec - 259200), Num(Lat0), Num(Lon0)),
                  ImageSize(Num(320), Num(240))))

\* Bytes sharp cannot decode.
CorruptBuffer == Buffer("corrupt", FALSE, Null)

Rohini == Str("Rohini")

NoGps(ward, type) == Body(ward, type, Undefined, Undefined)

\* gpsLatitude=28.6140, gpsLongitude=77.2091: 15 m from the reference point.
NearGps(ward, type) ==
    Body(ward, type, Text(<<"2", "8", ".", "6", "1", "4", "0">>),
         Text(<<"7", "7", ".", "2", "0", "9", "1">>))

\* gpsLatitude=28.6129, gpsLongitude=77.2295: 2 km from the reference point.
FarGps(ward, type) ==
    Body(ward, type, Text(<<"2", "8", ".", "6", "1", "2", "9">>),
         Text(<<"7", "7", ".", "2", "2", "9", "5">>))

\* gpsLatitude=0, gpsLongitude=77.2090: a reading on the equator.
EquatorGps(ward, type) ==
    Body(ward, type, Text(<<"0">>), Text(<<"7", "7", ".", "2", "0", "9", "0">>))

\* gpsLatitude=51.4779, gpsLongitude=0: a reading on the prime meridian.
MeridianGps(ward, type) ==
    Body(ward, type, Text(<<"5", "1", ".", "4", "7", "7", "9">>), Text(<<"0">>))

Submissions ==
    {Submission(File(GoodBuffer, 300 * KiB, "image/jpeg"), NearGps(Rohini, Str("waterlogging"))),
     Submission(File(GoodBuffer, 300 * KiB, "image/jpeg"), EquatorGps(Rohini, Str("waterlogging"))),
     Submission(File(OldBuffer, 200 * KiB, "image/jpeg"), MeridianGps(Rohini, Str("drainage"))),
     Submission(File(WorstBuffer, 40 * KiB, "image/jpeg"), FarGps(Rohini, Str("pothole"))),
     Submission(File(BareBuffer, 40 * KiB, "image/png"), NoGps(Rohini, Str("flood"))),
     Submission(File(CorruptBuffer, 300 * KiB, "image/jpeg"), NoGps(Rohini, Str("drainage"))),
     Submission(File(BareBuffer, 1 * KiB, "image/gif"), NoGps(Rohini, Str("pothole"))),
     Submission(File(OldBuffer, 200 * KiB, "image/jpeg"), NearGps(Undefined, Str("pothole"))),
     Submission(Undefined, NoGps(Rohini, Str("waterlogging")))}

-----------------------------------------------------------------------------
(* Specifications *)

ServerIdle ==
    /\ router = "incidents.js"
    /\ incidents = <<>>
    /\ storage = {}
    /\ clock = 0
    /\ req = [r \in Requests |-> IdleRequest]

ServerStart ==
    /\ router \in Routers
    /\ incidents = <<>>
    /\ storage = {}
    /\ clock = 0
    /\ req = [r \in Requests |-> IdleRequest]

\* The server: requests arrive and their handlers advance from await to
\* await, interleaved.
Init == ServerStart /\ ValidatorsIdle /\ BrowserIdle /\ PatchIdle

Next ==
    \/ \E r \in Requests, input \in Submissions : Receive(r, input)
    \/ \E r \in Requests, queryFails \in BOOLEAN, percent \in AiPercents :
           CheckDuplicate(r, queryFails, percent)
    \/ \E r \in Requests, storageFails \in BOOLEAN : UploadImage(r, storageFails)
    \/ \E r \in Requests, storageFails \in BOOLEAN : UploadThumbnail(r, storageFails)
    \/ \E r \in Requests, insertFails \in BOOLEAN : SaveIncident(r, insertFails)
    \/ Tick

Spec == Init /\ [][Next]_vars

\* The score aggregation alone.
NextScore == RouteOverallScore \/ calculateValidationScore

InitScore ==
    /\ ScoreInputs /\ TimestampIdle /\ LocationIdle /\ ServerIdle
    /\ QualityIdle /\ AiIdle /\ ReportIdle /\ BrowserIdle /\ PatchIdle

SpecScore == InitScore /\ [][NextScore]_vars

\* validateTimestamp alone.
NextTimestamp == ValidateTimestamp

InitTimestamp ==
    /\ TimestampInputs /\ ScoreIdle /\ LocationIdle /\ ServerIdle
    /\ QualityIdle /\ AiIdle /\ ReportIdle /\ BrowserIdle /\ PatchIdle

SpecTimestamp == InitTimestamp /\ [][NextTimestamp]_vars

\* validateLocation alone.
NextLocation == ValidateLocation

InitLocation ==
    /\ LocationInputs /\ ScoreIdle /\ TimestampIdle /\ ServerIdle
    /\ QualityIdle /\ AiIdle /\ ReportIdle /\ BrowserIdle /\ PatchIdle

SpecLocation == InitLocation /\ [][NextLocation]_vars

-----------------------------------------------------------------------------
(* Properties of the score aggregation, under SpecScore *)

\* The number of check results that are not undefined, and of those equal
\* to true, recounted one position at a time.
RECURSIVE CountIn(_, _, _)
CountIn(c, i, S) ==
    IF i = 0 THEN 0 ELSE CountIn(c, i - 1, S) + (IF c[i] \in S THEN 1 ELSE 0)

definedCount == CountIn(checks, Len(checks), {Bool(TRUE), Bool(FALSE)})
passedCount == CountIn(checks, Len(checks), {Bool(TRUE)})

\* s is p / d rounded to the nearest integer, a half going up.
IsRounded(s, p, d) == 2 * s * d <= 2 * p + d /\ 2 * p + d < 2 * (s + 1) * d

\* C1: for every assignment of the four check results (true, false or
\* undefined) the overall score is round(100 * passedCount / definedCount),
\* and 0 when definedCount is 0; [pass, fail, pass, pass] gives 75, all fail
\* gives 0, all pass gives 100.  The model method stores the same number in
\* the document whenever it stores one.
C1_OverallScoreIsRoundedPercentage ==
    overallScore # Undefined =>
        /\ overallScore.t = "number"
        /\ definedCount = 0 => overallScore = Num(0)
        /\ definedCount > 0 => IsRounded(overallScore.n, 100 * passedCount, definedCount)
        /\ checks = <<Bool(TRUE), Bool(FALSE), Bool(TRUE), Bool(TRUE)>> => overallScore = Num(75)
        /\ checks = [i \in 1 .. NumChecks |-> Bool(FALSE)] => overallScore = Num(0)
        /\ checks = [i \in 1 .. NumChecks |-> Bool(TRUE)] => overallScore = Num(100)
        /\ docScore # Undefined => docScore = overallScore

\* Two of three defined checks passed: 66.67 is rounded to 67.
C1_Witness ==
    /\ checks = <<Bool(TRUE), Undefined, Bool(TRUE), Bool(FALSE)>>
    /\ overallScore = Num(67)

-----------------------------------------------------------------------------
(* Properties of validateTimestamp, under SpecTimestamp *)

\* The timestamp the check is to decide on: dateTimeOriginal when the
\* metadata has one, else dateTime, else none.
bestTimestamp ==
    IF tsExif = Null THEN Null
    ELSE IF tsExif.dateTimeOriginal # Null THEN tsExif.dateTimeOriginal
    ELSE tsExif.dateTime

\* Milliseconds from the instant t to the validation instant.
ElapsedMs(t) == (tsNow.sec - t.sec) * 1000 + tsNow.ms - t.ms

Hours(n) == n * 3600000

\* C3: with h the unrounded hours from the EXIF timestamp to now, the check
\* fails when h < 0, passes when 0 <= h <= 24, passes flagged for review
\* when 24 < h <= 48 and fails when h > 48; 0, 24 and 48 pass, anything
\* above 48 fails.
C3_TimestampBands ==
    (tsResult # Undefined /\ bestTimestamp # Null) =>
        LET h == ElapsedMs(bestTimestamp)
        IN  /\ h < 0 => ~tsResult.passed
            /\ (0 <= h /\ h <= Hours(24)) =>
                   /\ tsResult.passed
                   /\ tsResult.message = "Timestamp verified - Photo taken within 24 hours"
            /\ (Hours(24) < h /\ h <= Hours(48)) =>
                   /\ tsResult.passed
                   /\ tsResult.message = "Photo is 1-2 days old - acceptable but verify"
            /\ h > Hours(48) => ~tsResult.passed

\* A photo exactly 48 hours old passes, flagged.
C3_Witness ==
    /\ tsResult # Undefined
    /\ bestTimestamp # Null
    /\ ElapsedMs(bestTimestamp) = Hours(48)
    /\ tsResult.passed
    /\ tsResult.message = "Photo is 1-2 days old - acceptable but verify"

\* The tenths of an hour the result reports.
reportedTenths == tsResult.hoursDifference.x10

\* C4 as stated: in every result with a resolved photo timestamp, passed is
\* true if and only if the reported hoursDifference (rounded to one
\* decimal) lies in [0, 48].
C4_BandOnReportedHours ==
    (tsResult # Undefined /\ tsResult.exifDateTime # Null) =>
        (tsResult.passed <=> (0 <= reportedTenths /\ reportedTenths <= 480))

\* C4, amended: the reported hoursDifference is the difference rounded to
\* one decimal, but the band is decided on the unrounded difference: passed
\* is true if and only if the unrounded difference lies in [0 h, 48 h].  A
\* passed result reports a value in [0, 48]; a reported value in [0, 48]
\* does not imply passed.
C4_BandOnUnroundedHours ==
    (tsResult # Undefined /\ tsResult.exifDateTime # Null) =>
        LET h == ElapsedMs(tsResult.exifDateTime)
        IN  /\ IsRounded(reportedTenths, h, 360000)
            /\ tsResult.passed <=> (0 <= h /\ h <= Hours(48))
            /\ tsResult.passed => (0 <= reportedTenths /\ reportedTenths <= 480)

\* A photo 48 hours and one millisecond old fails and reports 48.0.
C4_Witness ==
    /\ tsResult # Undefined
    /\ tsResult.exifDateTime # Null
    /\ ElapsedMs(tsResult.exifDateTime) = Hours(48) + 1
    /\ ~tsResult.passed
    /\ reportedTenths = 480

\* C5: without any EXIF timestamp, the metadata absent altogether or both
\* dateTime and dateTimeOriginal absent, the check fails and leaves
\* hoursDifference and the resolved timestamp null.
C5_NoTimestampFails ==
    (tsResult # Undefined /\ bestTimestamp = Null) =>
        /\ tsResult.passed = FALSE
        /\ tsResult.hoursDifference = Null
        /\ tsResult.exifDateTime = Null
        /\ tsResult.message = "No timestamp found in photo metadata"

\* Metadata that has neither timestamp has been checked.
C5_Witness ==
    /\ tsResult # Undefined
    /\ tsExif # Null
    /\ tsExif.dateTime = Null
    /\ tsExif.dateTimeOriginal = Null
    /\ ~tsResult.passed

\* C6: with both timestamps present the check decides and reports on
\* dateTimeOriginal alone, whatever dateTime is; dateTime is decided and
\* reported on only when dateTimeOriginal is absent.
C6_DateTimeOriginalPreferred ==
    (tsResult # Undefined /\ tsExif # Null) =>
        LET original == tsExif.dateTimeOriginal
            other == tsExif.dateTime
        IN  /\ original # Null =>
                   /\ tsResult.exifDateTime = original
                   /\ tsResult.passed <=>
                          (0 <= ElapsedMs(original) /\ ElapsedMs(original) <= Hours(48))
            /\ (original = Null /\ other # Null) =>
                   /\ tsResult.exifDateTime = other
                   /\ tsResult.passed <=>
                          (0 <= ElapsedMs(other) /\ ElapsedMs(other) <= Hours(48))

\* A fresh dateTimeOriginal passes next to a dateTime three days old.
C6_Witness ==
    /\ tsResult # Undefined
    /\ tsExif # Null
    /\ tsExif.dateTimeOriginal # Null
    /\ tsExif.dateTime # Null
    /\ ElapsedMs(tsExif.dateTimeOriginal) <= Hours(24)
    /\ ElapsedMs(tsExif.dateTimeOriginal) >= 0
    /\ ElapsedMs(tsExif.dateTime) > Hours(48)
    /\ tsResult.passed
    /\ tsResult.exifDateTime = tsExif.dateTimeOriginal

-----------------------------------------------------------------------------
(* Properties of validateLocation, under SpecLocation *)

\* What the inputs hold, a coordinate of 0 being a coordinate: the image
\* carries both GPS tags, the device sent a reading, a zone is named.
exifGpsPresent ==
    /\ locBuffer.exif # Null
    /\ locBuffer.exif.tags.GPSLatitude # Undefined
    /\ locBuffer.exif.tags.GPSLongitude # Undefined

deviceGpsPresent == locUserGPS # Null

zoneDeclared == locWard \notin {Undefined, Str("")}

\* Decimetres between the EXIF position and the device reading.
exifToDevice ==
    calculateDistance(locBuffer.exif.tags.GPSLatitude.n, locBuffer.exif.tags.GPSLongitude.n,
                      locUserGPS.latitude.n, locUserGPS.longitude.n)

NoLocationData == "No location data provided"
WardOnly == "Ward selected but GPS recommended for better accuracy"
DeviceOnly == "GPS captured but no EXIF GPS - acceptable"

\* C7 as stated: with EXIF GPS and device GPS both present, a distance
\* under 500 m passes with exifGpsMatch, a distance from 500 m to under
\* 2000 m passes without exifGpsMatch, a distance of 2000 m or more fails
\* without exifGpsMatch, whatever the declared zone.
C7_DistanceBands ==
    (locResult # Undefined /\ exifGpsPresent /\ deviceGpsPresent) =>
        LET d == exifToDevice
        IN  /\ d < 500 * DM => (locResult.passed /\ locResult.exifGpsMatch)
            /\ (500 * DM <= d /\ d < 2000 * DM) =>
                   (locResult.passed /\ ~locResult.exifGpsMatch)
            /\ d >= 2000 * DM => (~locResult.passed /\ ~locResult.exifGpsMatch)

\* EXIF GPS in Delhi, a device reading on the equator 3180 km away and a
\* declared zone: the check passes on the zone.
C7_Witness ==
    /\ locResult # Undefined
    /\ exifGpsPresent
    /\ locBuffer.exif.tags.GPSLatitude = Num(Lat0)
    /\ locBuffer.exif.tags.GPSLongitude = Num(Lon0)
    /\ locUserGPS = UserGPS(Num(0), Num(Lon0), Null)
    /\ locWard = Str("Rohini")
    /\ exifToDevice >= 2000 * DM
    /\ locResult.passed
    /\ locResult.message = WardOnly

\* C8 as stated: unless EXIF GPS and device GPS are both present, the check
\* passes if and only if device GPS is present or a zone is declared; EXIF
\* GPS alone never passes and a declared zone alone never fails.
C8_FallbackPasses ==
    (locResult # Undefined /\ ~(exifGpsPresent /\ deviceGpsPresent)) =>
        /\ locResult.passed <=> (deviceGpsPresent \/ zoneDeclared)
        /\ (exifGpsPresent /\ ~zoneDeclared) => ~locResult.passed
        /\ zoneDeclared => locResult.passed

\* A device reading on the equator, no EXIF GPS and no zone: the check
\* fails for want of location data.
C8_Witness ==
    /\ locResult # Undefined
    /\ locBuffer.exif = Null
    /\ locUserGPS = UserGPS(Num(0), Num(Lon0), Null)
    /\ locWard = Undefined
    /\ ~locResult.passed
    /\ locResult.message = NoLocationData

\* C9 as stated: the result is that of exactly one of the four branches,
\* and it is the fourth, failing for no location data, exactly when none
\* of EXIF GPS, device GPS and declared zone is present.
C9_FourBranches ==
    locResult # Undefined =>
        /\ \/ locResult.distanceFromWard # Null
           \/ locResult.message \in {DeviceOnly, WardOnly, NoLocationData}
        /\ locResult.distanceFromWard # Null =>
               locResult.message \notin {DeviceOnly, WardOnly, NoLocationData}
        /\ locResult.message = NoLocationData <=>
               (~exifGpsPresent /\ ~deviceGpsPresent /\ ~zoneDeclared)

\* A device reading on the prime meridian, no EXIF GPS and an empty zone:
\* the fourth branch, with device GPS present.
C9_Witness ==
    /\ locResult # Undefined
    /\ ~exifGpsPresent
    /\ locUserGPS = UserGPS(Num(Lat0), Num(0), Null)
    /\ locWard = Str("")
    /\ locResult.message = NoLocationData

-----------------------------------------------------------------------------
(* Properties of POST /api/incidents, under Spec *)

\* The requests answered 201, and the row each of them saved.
Created == {r \in Requests : req[r].response # Null /\ req[r].response.status = 201}

SavedRow(r) == incidents[req[r].response.id]

\* How many of a submission's four checks passed.
PassedOf(v) ==
    (IF v.timestamp.passed THEN 1 ELSE 0) + (IF v.aiGenerated.passed THEN 1 ELSE 0)
    + (IF v.location.passed THEN 1 ELSE 0) + (IF v.quality.passed THEN 1 ELSE 0)

\* C2: every record persisted by a successful POST stores as
\* validation_overall_score the rounded percentage of that submission's
\* four checks that passed, and a submission with a failed check is never
\* persisted with score 100.
C2_PersistedScoreIsPercentage ==
    \A r \in Created :
        LET score == SavedRow(r).validation_overall_score
            n == PassedOf(req[r].validationResults)
        IN  /\ score.t = "number"
            /\ IsRounded(score.n, 100 * n, NumChecks)
            /\ n < NumChecks => score # Num(100)

\* A submission with one passed check has been persisted with score 25.
C2_Witness ==
    \E r \in Created :
        /\ PassedOf(req[r].validationResults) = 1
        /\ SavedRow(r).validation_overall_score = Num(25)

\* C10 as stated: a device reading with a coordinate of exactly 0 is a
\* present reading: it selects a device-GPS branch of the location check
\* and is persisted as 0, not null.
C10_ZeroCoordinatePresent ==
    \A r \in Created :
        LET body == req[r].input.body
        IN  (body.gpsLatitude # Undefined /\ body.gpsLongitude # Undefined) =>
                /\ SavedRow(r).gps_latitude = parseFloat(body.gpsLatitude)
                /\ SavedRow(r).gps_longitude = parseFloat(body.gpsLongitude)
                /\ req[r].validationResults.location.message \notin {WardOnly, NoLocationData}

\* A report sent from latitude 0 has been saved with a null gps_latitude
\* after the location check took the zone-only branch.
C10_Witness ==
    \E r \in Created :
        /\ parseFloat(req[r].input.body.gpsLatitude) = Num(0)
        /\ SavedRow(r).gps_latitude = Null
        /\ SavedRow(r).gps_longitude # Null
        /\ req[r].validationResults.location.message = WardOnly

-----------------------------------------------------------------------------
(* Further properties of validateLocation, under SpecLocation *)

\* C11 as stated: the location result always carries distanceFromWard and
\* exifGpsMatch; distanceFromWard is non-null if and only if EXIF GPS and
\* device GPS were both present, and exifGpsMatch is true if and only if
\* they were both present and less than 500 m apart.
C11_LocationOutputs ==
    locResult # Undefined =>
        /\ {"distanceFromWard", "exifGpsMatch"} \subseteq DOMAIN locResult
        /\ locResult.distanceFromWard # Null <=> (exifGpsPresent /\ deviceGpsPresent)
        /\ locResult.exifGpsMatch <=>
               (exifGpsPresent /\ deviceGpsPresent /\ exifToDevice < 500 * DM)

\* EXIF GPS and a device reading at the same point of the equator: no
\* distance is recorded and the positions do not count as matching.
C11_Witness ==
    /\ locResult # Undefined
    /\ exifGpsPresent
    /\ locBuffer.exif.tags.GPSLatitude = Num(0)
    /\ locBuffer.exif.tags.GPSLongitude = Num(Lon0)
    /\ locUserGPS = UserGPS(Num(0), Num(Lon0), Null)
    /\ exifToDevice = 0
    /\ locResult.distanceFromWard = Null
    /\ ~locResult.exifGpsMatch

-----------------------------------------------------------------------------
(* validateQuality as an operation *)

\* Byte sizes around the two bounds: 40 KiB, one byte under and exactly
\* 50 KiB, 300 KiB, exactly and one byte over 10 MiB, 11 MiB.
QualitySizes ==
    {40 * KiB, 50 * KiB - 1, 50 * KiB, 300 * KiB,
     10 * 1024 * KiB, 10 * 1024 * KiB + 1, 11 * 1024 * KiB}

QualityMimes == {"image/jpeg", "image/jpg", "image/png", "image/gif", "image/webp"}

\* Pixel dimensions around 640 x 480 = 307200.
QualityDimensions == {<<640, 480>>, <<639, 480>>, <<320, 240>>, <<4000, 3000>>}

NoCamera == Camera(Undefined, Undefined, Undefined)

\* No metadata, metadata without pixel dimensions, metadata with them.
QualityExifs ==
    {Null, ExifData(Null, Null, Null, NoCamera, Null)}
    \cup {ExifData(Null, Null, Null, NoCamera, ImageSize(Num(d[1]), Num(d[2]))) :
            d \in QualityDimensions}

QualityInputs ==
    /\ qFile \in {File(Buffer("q", TRUE, Null), size, mimetype) :
                    size \in QualitySizes, mimetype \in QualityMimes}
    /\ qExif \in QualityExifs
    /\ qResult = Undefined

\* validateQuality(file, exifData)
ValidateQuality ==
    /\ qResult = Undefined
    /\ qResult' = validateQuality(qFile, qExif)
    /\ UNCHANGED <<qFile, qExif, scoreVars, tsVars, locVars, serverVars,
                   aiVars, reportVars, browserVars, patchVars, exportVars>>

NextQuality == ValidateQuality

InitQuality ==
    /\ QualityInputs /\ ScoreIdle /\ TimestampIdle /\ LocationIdle /\ ServerIdle
    /\ AiIdle /\ ReportIdle /\ BrowserIdle /\ PatchIdle

SpecQuality == InitQuality /\ [][NextQuality]_vars

-----------------------------------------------------------------------------
(* Properties of validateQuality, under SpecQuality *)

sizeTooSmall == qFile.size < 51200
sizeTooLarge == qFile.size > 10485760
resolutionAvailable == qExif # Null /\ qExif.imageSize # Null
pixelCount == qExif.imageSize.width.n * qExif.imageSize.height.n
lowResolution == resolutionAvailable /\ pixelCount < 307200
formatAllowed == qFile.mimetype \in {"image/jpeg", "image/jpg", "image/png"}

TooSmall == "File size very small - low quality image"
TooLarge == "File size too large - please compress"
LowResolution == "Low resolution (${result.resolution}) - minimum 640x480"
InvalidFormat == "Invalid format - only JPEG/PNG allowed"

\* C12: validateQuality passes if and only if the byte size is in
\* [50 * 1024, 10 * 1024 * 1024], both bounds accepted, the pixel count is
\* at least 307200 whenever resolution metadata is available, and the MIME
\* type is image/jpeg, image/jpg or image/png; a 40 KiB JPEG is too small
\* and an 11 MiB PNG too large.
C12_QualityPasses ==
    qResult # Undefined =>
        /\ qResult.passed <=>
               /\ 51200 <= qFile.size /\ qFile.size <= 10485760
               /\ resolutionAvailable => pixelCount >= 307200
               /\ formatAllowed
        /\ (qFile.size = 40 * 1024 /\ qFile.mimetype = "image/jpeg") =>
               (~qResult.passed /\ qResult.message = TooSmall)
        /\ (qFile.size = 11 * 1024 * 1024 /\ qFile.mimetype = "image/png") =>
               (~qResult.passed /\ qResult.message = TooLarge)

\* A PNG of exactly 50 KiB and exactly 640 x 480 pixels passes.
C12_Witness ==
    /\ qResult # Undefined
    /\ qFile.size = 51200
    /\ qFile.mimetype = "image/png"
    /\ resolutionAvailable
    /\ pixelCount = 307200
    /\ qResult.passed

\* C13: when several conditions fail at once the reported failure is the
\* first in the order too small, too large, low resolution, invalid
\* format.
C13_QualityPriority ==
    qResult # Undefined =>
        /\ sizeTooSmall => qResult.message = TooSmall
        /\ sizeTooLarge => qResult.message = TooLarge
        /\ (~sizeTooSmall /\ ~sizeTooLarge /\ lowResolution) =>
               qResult.message = LowResolution
        /\ (~sizeTooSmall /\ ~sizeTooLarge /\ ~lowResolution /\ ~formatAllowed) =>
               qResult.message = InvalidFormat
        /\ qResult.message \in {TooSmall, TooLarge, LowResolution, InvalidFormat} =>
               ~qResult.passed

\* A correctly sized GIF of 320 x 240 pixels reports low resolution.
C13_Witness ==
    /\ qResult # Undefined
    /\ qFile.size = 300 * 1024
    /\ qFile.mimetype = "image/gif"
    /\ lowResolution
    /\ qResult.message = LowResolution

-----------------------------------------------------------------------------
(* validateAIGenerated as an operation *)

\* Math.random() is aiRandom / RandomSteps, a value in [0, 1).
RandomSteps == 200

\* The draw scaled by 0.25 instead of 0.15.
randomConfidencePercentWide(k) == MathRound(85 * RandomSteps + 25 * k, RandomSteps)

\* Math.round(randomConfidence * 100) for randomConfidence =
\* 0.85 + Math.random() * 0.15 and Math.random() = k / RandomSteps.
randomConfidencePercent(k) == MathRound(85 * RandomSteps + 15 * k, RandomSteps)

\* What the external classifier would answer for the image: an
\* AI-generated probability in hundredths, or a failed call.
ClassifierScore(p100) == [t |-> "score", p100 |-> p100]
ClassifierError == [t |-> "error"]
ClassifierAnswers ==
    {ClassifierScore(p) : p \in {0, 10, 49, 50, 51, 90, 100}} \cup {ClassifierError}

AiInputs ==
    /\ aiEnv \in BOOLEAN
    /\ aiRandom \in 0 .. RandomSteps - 1
    /\ aiClassifier \in ClassifierAnswers
    /\ aiResult = Undefined

\* validateAIGenerated(file): the file and the classifier are not read.
ValidateAIGenerated ==
    /\ aiResult = Undefined
    /\ aiResult' = validateAIGenerated(aiEnv, randomConfidencePercent(aiRandom))
    /\ UNCHANGED <<aiEnv, aiRandom, aiClassifier, scoreVars, tsVars, locVars, serverVars,
                   qualityVars, reportVars, browserVars, patchVars, exportVars>>

NextAi == ValidateAIGenerated

InitAi ==
    /\ AiInputs /\ ScoreIdle /\ TimestampIdle /\ LocationIdle /\ ServerIdle
    /\ QualityIdle /\ ReportIdle /\ BrowserIdle /\ PatchIdle

SpecAi == InitAi /\ [][NextAi]_vars

-----------------------------------------------------------------------------
(* Properties of validateAIGenerated, under SpecAi *)

\* C14: with AI detection disabled validateAIGenerated returns passed =
\* true with an integer confidence in [85, 100], whatever the image and
\* the random draw.
C14_SimulatedAlwaysPasses ==
    (aiResult # Undefined /\ ~aiEnv) =>
        /\ aiResult.passed = TRUE
        /\ aiResult.confidence \in 85 .. 100

\* The largest draw gives confidence 100.
C14_Witness ==
    /\ aiResult # Undefined
    /\ ~aiEnv
    /\ aiRandom = RandomSteps - 1
    /\ aiResult.passed
    /\ aiResult.confidence = 100

\* C15 as stated: with AI detection enabled the check passes if and only
\* if the classifier's AI-generated probability p is below 0.5, with
\* confidence round((1 - p) * 100); when the classifier call fails the
\* check passes and carries a warning message.
C15_ClassifierDecides ==
    (aiResult # Undefined /\ aiEnv) =>
        /\ aiClassifier.t = "score" =>
               /\ aiResult.passed <=> aiClassifier.p100 < 50
               /\ aiResult.confidence = 100 - aiClassifier.p100
        /\ aiClassifier.t = "error" =>
               /\ aiResult.passed
               /\ aiResult.message # ""

\* Detection enabled and an image the classifier scores 0.9: the check
\* passes with confidence 0 and no message.
C15_Witness ==
    /\ aiResult # Undefined
    /\ aiEnv
    /\ aiClassifier = ClassifierScore(90)
    /\ aiResult.passed
    /\ aiResult.confidence = 0
    /\ aiResult.message = ""

-----------------------------------------------------------------------------
(* The validator run on one submission more than once *)

\* How many times the validator is run on the same inputs.
MaxRuns == 2

Runs == 1 .. MaxRuns

\* validationResults.<check>?.passed
OptPassed(result) ==
    IF result \in {Undefined, Null} THEN Undefined ELSE Bool(result.passed)

\* const checks = [timestamp?.passed, aiGenerated?.passed, location?.passed,
\*                 quality?.passed]
checksOf(results) ==
    <<OptPassed(results.timestamp), OptPassed(results.aiGenerated),
      OptPassed(results.location), OptPassed(results.quality)>>

\* The EXIF segment can be read by the first run only.
ValidatorReportConsuming(input, run) ==
    LET exifData == IF rpReports = <<>> THEN extractEXIF(input.file.buffer) ELSE Null
        results == ValidationResults(input.file, exifData, input.userGPS, input.ward,
                                     input.now[run], input.percent[run])
    IN  [validationResults |-> results, checks |-> checksOf(results),
         overallScore |-> overallScoreOf(checksOf(results))]

\* One run of the validator: extractEXIF, the four checks and the score.
\* input.now[run] is new Date() and input.percent[run] the simulated
\* confidence of that run.
ValidatorReport(input, run) ==
    LET exifData == extractEXIF(input.file.buffer)
        results == ValidationResults(input.file, exifData, input.userGPS, input.ward,
                                     input.now[run], input.percent[run])
    IN  [validationResults |-> results, checks |-> checksOf(results),
         overallScore |-> overallScoreOf(checksOf(results))]

\* EXIF without any tag and without pixel dimensions.
EmptyTagsBuffer ==
    Buffer("notags", TRUE,
           Parsed(Tags(Undefined, Undefined, Undefined, Undefined), Undefined))

\* A 1280x720 photo taken two hours ago, without GPS tags.
NoGpsBuffer ==
    Buffer("nogps", TRUE,
           Parsed(Tags(Undefined, Num(NowSec - 7200), Undefined, Undefined),
                  ImageSize(Num(1280), Num(720))))

\* A photo taken two hours ago at the reference point, without pixel
\* dimensions in its metadata.
NoSizeBuffer ==
    Buffer("nosize", TRUE,
           Parsed(Tags(Num(NowSec - 7200), Undefined, Num(Lat0), Num(Lon0)), Undefined))

ReportBuffers == {BareBuffer, EmptyTagsBuffer, NoGpsBuffer, NoSizeBuffer, GoodBuffer}

ReportFiles ==
    {File(b, 300 * KiB, "image/jpeg") : b \in ReportBuffers}
    \cup {File(b, 10 * KiB, "image/gif") : b \in ReportBuffers}

\* No device reading, one 15 m from the reference point, one 2 km away.
ReportUserGPSs ==
    {Null, UserGPS(Num(28614000), Num(77209100), Num(12)),
     UserGPS(Num(28612900), Num(77229500), Num(12))}

ReportWards == {Undefined, Rohini}

\* The instant of a run: NowSec or two days later.
ReportNows == {Date(NowSec, 0), Date(NowSec + 172800, 0)}

ReportPercents == {85, 100}

ReportInputs ==
    /\ rpInput \in [file : ReportFiles, userGPS : ReportUserGPSs, ward : ReportWards,
                    now : [Runs -> ReportNows], percent : [Runs -> ReportPercents]]
    /\ rpReports = <<>>

\* One more run on the same inputs; the validators assign to none of their
\* arguments.
Validate ==
    /\ rpInput # Null
    /\ Len(rpReports) < MaxRuns
    /\ rpReports' = Append(rpReports, ValidatorReport(rpInput, Len(rpReports) + 1))
    /\ UNCHANGED <<rpInput, scoreVars, tsVars, locVars, serverVars, qualityVars, aiVars,
                   browserVars, patchVars, exportVars>>

NextReport == Validate

InitReport ==
    /\ ReportInputs /\ ScoreIdle /\ TimestampIdle /\ LocationIdle /\ ServerIdle
    /\ QualityIdle /\ AiIdle /\ BrowserIdle /\ PatchIdle

SpecReport == InitReport /\ [][NextReport]_vars

-----------------------------------------------------------------------------
(* Properties of the validator, under SpecReport *)

CheckNames == {"timestamp", "aiGenerated", "location", "quality"}

\* C16: whatever inputs are absent (no EXIF at all, no EXIF GPS, no device
\* GPS, no declared zone, no resolution metadata), each of the four checks
\* returns a result with a boolean passed, so four checks are defined and
\* the score is one of 0, 25, 50, 75, 100.
C16_AbsentInputsStillScored ==
    \A i \in DOMAIN rpReports :
        LET report == rpReports[i]
        IN  /\ \A k \in CheckNames :
                   /\ report.validationResults[k] \notin {Undefined, Null}
                   /\ report.validationResults[k].passed \in BOOLEAN
            /\ CountIn(report.checks, Len(report.checks), {Bool(TRUE), Bool(FALSE)}) = 4
            /\ report.overallScore \in {Num(0), Num(25), Num(50), Num(75), Num(100)}

\* A 10 KiB GIF without EXIF, without device GPS and without a zone: only
\* the authenticity check passes.
C16_Witness ==
    /\ rpReports # <<>>
    /\ rpInput.file = File(BareBuffer, 10 * KiB, "image/gif")
    /\ rpInput.userGPS = Null
    /\ rpInput.ward = Undefined
    /\ rpReports[1].checks = <<Bool(FALSE), Bool(TRUE), Bool(FALSE), Bool(FALSE)>>
    /\ rpReports[1].overallScore = Num(25)

-----------------------------------------------------------------------------
(* The two reference distances, under SpecLocation *)

\* The EXIF position is (28.6139, 77.2090).
exifAtReference ==
    /\ locBuffer.exif # Null
    /\ locBuffer.exif.tags.GPSLatitude = Num(Lat0)
    /\ locBuffer.exif.tags.GPSLongitude = Num(Lon0)

deviceAt(lat, lon) ==
    /\ locUserGPS # Null
    /\ locUserGPS.latitude = Num(lat)
    /\ locUserGPS.longitude = Num(lon)

Suspicious == "EXIF GPS far from user location (${Math.round(distance)}m) - suspicious"
Verified == "GPS coordinates verified - EXIF matches user location"

\* C20: calculateDistance gives at least 2000 m between (28.6139, 77.2090)
\* and (28.6129, 77.2295), so that pair fails the location check as
\* suspicious, and less than 500 m between (28.6139, 77.2090) and
\* (28.6140, 77.2091), so that pair passes with exifGpsMatch = true.
C20_ReferenceDistances ==
    (locResult # Undefined /\ exifAtReference) =>
        /\ deviceAt(28612900, 77229500) =>
               /\ exifToDevice >= 2000 * DM
               /\ ~locResult.passed
               /\ ~locResult.exifGpsMatch
               /\ locResult.message = Suspicious
        /\ deviceAt(28614000, 77209100) =>
               /\ exifToDevice < 500 * DM
               /\ locResult.passed
               /\ locResult.exifGpsMatch
               /\ locResult.message = Verified

\* The 2 km pair has been validated: 2004 m, failed.
C20_Witness ==
    /\ locResult # Undefined
    /\ exifAtReference
    /\ deviceAt(28612900, 77229500)
    /\ locResult.distanceFromWard = Num(2004)
    /\ ~locResult.passed

\* The 15 m pair has been validated and passed.
C20_WitnessNear ==
    /\ locResult # Undefined
    /\ exifAtReference
    /\ deviceAt(28614000, 77209100)
    /\ locResult.distanceFromWard = Num(15)
    /\ locResult.exifGpsMatch

-----------------------------------------------------------------------------
(* parseInt and template literals *)

DigitChar(d) ==
    CASE d = 0 -> "0" [] d = 1 -> "1" [] d = 2 -> "2" [] d = 3 -> "3"
      [] d = 4 -> "4" [] d = 5 -> "5" [] d = 6 -> "6" [] d = 7 -> "7"
      [] d = 8 -> "8" [] OTHER -> "9"

\* `${n}` for an integer n >= 0.
RECURSIVE NumberChars(_)
NumberChars(n) ==
    IF n < 10 THEN <<DigitChar(n)>>
    ELSE Append(NumberChars(n \div 10), DigitChar(n % 10))

\* Number of blanks of cs from position i on.
RECURSIVE Blanks(_, _)
Blanks(cs, i) == IF i <= Len(cs) /\ cs[i] = " " THEN 1 + Blanks(cs, i + 1) ELSE 0

\* parseInt(x): leading blanks are skipped, then an optional sign and the
\* longest run of digits; NaN when there is no digit (undefined included).
parseInt(x) ==
    IF x.t # "string" THEN NaN
    ELSE LET cs == x.chars
             b == Blanks(cs, 1)
             signed == b + 1 <= Len(cs) /\ cs[b + 1] \in {"-", "+"}
             i0 == IF signed THEN b + 2 ELSE b + 1
             ni == DigitRun(cs, i0)
             mag == DigitsValue(cs, i0, ni)
         IN  IF ni = 0 THEN NaN
             ELSE Num(IF signed /\ cs[b + 1] = "-" THEN -mag ELSE mag)

-----------------------------------------------------------------------------
(* The report form of app.js *)

\* validationResults = { timestamp: null, aiGenerated: null, location: null,
\*                       quality: null }
NoResults ==
    [timestamp |-> Null, aiGenerated |-> Null, location |-> Null, quality |-> Null]

\* The checks in the order validateImage schedules them: after 500, 1200,
\* 1900 and 2600 ms.
TimerOrder == <<"timestamp", "aiGenerated", "location", "quality">>

\* The results that are not null, and those that are true.
totalOf(results) == Cardinality({k \in DOMAIN results : results[k] # Null})
scoreOf(results) == Cardinality({k \in DOMAIN results : results[k] = Bool(TRUE)})

\* updateValidationScore(): the text of scoreValue afterwards.
updateValidationScore(results, text) ==
    LET values == <<results.timestamp, results.aiGenerated, results.location,
                    results.quality>>
        total == Cardinality({i \in DOMAIN values : values[i] # Null})
        score == Cardinality({i \in DOMAIN values : values[i] = Bool(TRUE)})
    IN  IF total = 0 THEN text
        ELSE Text(NumberChars(MathRound(score * 100, total)) \o <<"%">>)

\* The text scoreValue holds when the page has loaded.
InitialScoreTexts == {Text(<<"0", "%">>), Text(<<"-", "-">>)}

\* Photos captured in a run.
MaxCaptures == 2

\* Photos captured in the runs that include the server.
TableCaptures == 1

Photos == 1 .. MaxCaptures

\* For each result, the photo whose check stored it (0 for a null result).
NoOrigin == [timestamp |-> 0, aiGenerated |-> 0, location |-> 0, quality |-> 0]

\* uploadedImage, currentGPS, the ward and type selects, and around them:
\* disabled is submitIncident.disabled, modal whether uploadModal is shown,
\* cameraStream the stream held, cameraPending whether a getUserMedia
\* request is outstanding; captures is how many photos have been captured,
\* fired how many of each photo's four timers have run, origin the photo
\* each result comes from; pc is "idle", or "insert" between the storage
\* upload and the insert of submitIncidentReport.
Form(uploadedImage, currentGPS, ward, type) ==
    [uploadedImage |-> uploadedImage, currentGPS |-> currentGPS, ward |-> ward,
     type |-> type, disabled |-> TRUE, modal |-> FALSE,
     cameraStream |-> Null, cameraPending |-> FALSE,
     captures |-> 0, fired |-> [p \in Photos |-> Len(TimerOrder)],
     origin |-> NoOrigin, pc |-> "idle", fileName |-> Null]

BrowserStart ==
    /\ validationResults = NoResults
    /\ scoreValue \in InitialScoreTexts
    /\ browser = Form(Null, Null, Str(""), Str(""))

\* validateForm(): its return value; submitBtn.disabled becomes its negation.
\* A location is not asked for.
validateForm(form) ==
    /\ form.uploadedImage # Null
    /\ form.ward # Str("")
    /\ form.type # Str("")

\* updateValidationScore(): submitBtn.disabled afterwards.  With no result
\* the function returns before it reaches the button.
submitBtnDisabled(results, form) ==
    IF totalOf(results) = 0 THEN form.disabled
    ELSE ~(MathRound(scoreOf(results) * 100, totalOf(results)) >= 50
           /\ form.ward # Str("") /\ form.type # Str(""))

\* stopCamera(): the tracks of the stream held are stopped and cameraStream
\* is null; a getUserMedia request in flight is not touched.
stopCamera(form) == [form EXCEPT !.cameraStream = Null]

\* What resetUploadForm() leaves: no camera stream, no photo, no GPS, an
\* empty form, four null results and a disabled button; pending timers and
\* the text of scoreValue stay.
ResetForm(form) ==
    [stopCamera(form) EXCEPT !.uploadedImage = Null, !.currentGPS = Null,
                             !.ward = Str(""), !.type = Str(""),
                             !.origin = NoOrigin, !.disabled = TRUE]

\* reportIncidentBtn is clicked: the modal is shown and the form reset.
OpenModal ==
    /\ browser # Null
    /\ ~browser.modal
    /\ browser.pc = "idle"
    /\ browser' = [ResetForm(browser) EXCEPT !.modal = TRUE]
    /\ validationResults' = NoResults
    /\ UNCHANGED <<scoreValue, scoreVars, tsVars, locVars, serverVars, qualityVars,
                   aiVars, reportVars, patchVars, exportVars>>

\* closeModal: stopCamera(), the modal is hidden, resetUploadForm().
CloseModal ==
    /\ browser # Null
    /\ browser.modal
    /\ browser.pc = "idle"
    /\ browser' = [ResetForm(stopCamera(browser)) EXCEPT !.modal = FALSE]
    /\ validationResults' = NoResults
    /\ UNCHANGED <<scoreValue, scoreVars, tsVars, locVars, serverVars, qualityVars,
                   aiVars, reportVars, patchVars, exportVars>>

\* openCameraBtn is clicked, in the placeholder shown while there is
\* neither a stream nor a photo: openCamera() runs to its
\* await getUserMedia.  One request is outstanding at a time.
OpenCamera ==
    /\ browser # Null
    /\ browser.modal
    /\ browser.uploadedImage = Null
    /\ browser.cameraStream = Null
    /\ ~browser.cameraPending
    /\ browser' = [browser EXCEPT !.cameraPending = TRUE]
    /\ UNCHANGED <<validationResults, scoreValue, scoreVars, tsVars, locVars, serverVars,
                   qualityVars, aiVars, reportVars, patchVars, exportVars>>

\* The getUserMedia request of openCamera() settles: granted, the stream is
\* assigned to cameraStream and played; refused, the catch reports it.
GetUserMedia(granted) ==
    /\ browser # Null
    /\ browser.cameraPending
    /\ browser' = [browser EXCEPT !.cameraPending = FALSE,
                                  !.cameraStream = IF granted THEN [t |-> "object"] ELSE @]
    /\ UNCHANGED <<validationResults, scoreValue, scoreVars, tsVars, locVars, serverVars,
                   qualityVars, aiVars, reportVars, patchVars, exportVars>>

\* Bytes of a captured photo: below and inside the client's size range.
PhotoSizes == {40000, 300000}

\* capturePhoto, from the click on captureBtn next to the playing stream to
\* the reader's onload: the photo is stored, the camera stopped,
\* validateImage starts the four timers and validateForm sets the button.
CapturePhoto(size) ==
    /\ browser # Null
    /\ browser.modal
    /\ browser.cameraStream # Null
    /\ browser.captures < MaxCaptures
    /\ LET photo == browser.captures + 1
           form == [stopCamera(browser) EXCEPT
                       !.uploadedImage = [t |-> "object", size |-> size],
                       !.captures = photo, !.fired[photo] = 0]
       IN  browser' = [form EXCEPT !.disabled = ~validateForm(form)]
    /\ UNCHANGED <<validationResults, scoreValue, scoreVars, tsVars, locVars, serverVars,
                   qualityVars, aiVars, reportVars, patchVars, exportVars>>

\* removeImageBtn is clicked, next to the preview of the photo: the photo is
\* dropped and the button disabled; results and timers stay.
RemoveImage ==
    /\ browser # Null
    /\ browser.modal
    /\ browser.uploadedImage # Null
    /\ LET form == [browser EXCEPT !.uploadedImage = Null, !.disabled = TRUE]
       IN  browser' = [form EXCEPT !.disabled = ~validateForm(form)]
    /\ UNCHANGED <<validationResults, scoreValue, scoreVars, tsVars, locVars, serverVars,
                   qualityVars, aiVars, reportVars, patchVars, exportVars>>

\* The result a client check stores, undefined when the check throws
\* before storing one: validateTimestamp and validateQuality read
\* uploadedImage, which is null once the form has been reset.
clientCheck(k, form, minutes, random) ==
    CASE k = "timestamp" ->
             IF form.uploadedImage = Null THEN Undefined ELSE Bool(minutes < 1440)
      [] k = "aiGenerated" -> Bool(10 * random > RandomSteps)
      [] k = "location" -> Bool(form.currentGPS # Null \/ form.ward # Str(""))
      [] OTHER ->
             IF form.uploadedImage = Null THEN Undefined
             ELSE Bool(form.uploadedImage.size > 50000
                       /\ form.uploadedImage.size < 10000000)

\* The next timer validateImage started for `photo` fires: the check reads
\* the form as it is by now, stores its result and calls
\* updateValidationScore().  Timers are never cleared; those of one photo
\* fire in order, and a check of an earlier photo before the same check of
\* a later one.  minutes is the age of the photo held and random the value
\* of Math.random(), in RandomSteps-ths.
TimerFires(photo, minutes, random) ==
    /\ browser # Null
    /\ photo <= browser.captures
    /\ browser.fired[photo] < Len(TimerOrder)
    /\ \A p \in 1 .. photo - 1 : browser.fired[p] > browser.fired[photo]
    /\ LET k == TimerOrder[browser.fired[photo] + 1]
           result == clientCheck(k, browser, minutes, random)
       IN  IF result = Undefined
           THEN /\ browser' = [browser EXCEPT !.fired[photo] = @ + 1]
                /\ UNCHANGED <<validationResults, scoreValue>>
           ELSE /\ validationResults' = [validationResults EXCEPT ![k] = result]
                /\ scoreValue' = updateValidationScore(validationResults', scoreValue)
                /\ browser' = [browser EXCEPT
                                  !.fired[photo] = @ + 1,
                                  !.origin[k] = photo,
                                  !.disabled = submitBtnDisabled(validationResults', browser)]
    /\ UNCHANGED <<scoreVars, tsVars, locVars, serverVars, qualityVars, aiVars,
                   reportVars, patchVars, exportVars>>

\* captureLocation succeeds (finalizeLocationCapture): currentGPS is set,
\* with a photo present validateLocation() and updateValidationScore() run,
\* and validateForm() sets the button.
CaptureLocation ==
    /\ browser # Null
    /\ browser.currentGPS = Null
    /\ LET form == [browser EXCEPT !.currentGPS = UserGPS(Num(Lat0), Num(Lon0), Num(12))]
       IN  IF browser.uploadedImage # Null
           THEN /\ validationResults' = [validationResults EXCEPT !.location = Bool(TRUE)]
                /\ scoreValue' = updateValidationScore(validationResults', scoreValue)
                /\ browser' = [form EXCEPT !.origin.location = form.captures,
                                           !.disabled = ~validateForm(form)]
           ELSE /\ browser' = [form EXCEPT !.disabled = ~validateForm(form)]
                /\ UNCHANGED <<validationResults, scoreValue>>
    /\ UNCHANGED <<scoreVars, tsVars, locVars, serverVars, qualityVars, aiVars,
                   reportVars, patchVars, exportVars>>

\* The ward select changes: validateField('ward') and, with a photo
\* present, updateValidationScore().
SelectWard ==
    /\ browser # Null
    /\ browser.modal
    /\ browser.ward = Str("")
    /\ LET form == [browser EXCEPT !.ward = Rohini]
       IN  IF browser.uploadedImage # Null
           THEN /\ scoreValue' = updateValidationScore(validationResults, scoreValue)
                /\ browser' = [form EXCEPT
                                  !.disabled = submitBtnDisabled(validationResults, form)]
           ELSE /\ browser' = form
                /\ UNCHANGED scoreValue
    /\ UNCHANGED <<validationResults, scoreVars, tsVars, locVars, serverVars,
                   qualityVars, aiVars, reportVars, patchVars, exportVars>>

\* The values of the type select taken in a run: none, and one the table
\* accepts.
BrowserTypes == {Str(""), Str("waterlogging")}

\* The type select changes: validateField('type') and, with a photo
\* present, updateValidationScore().
SelectType(type) ==
    /\ browser # Null
    /\ browser.modal
    /\ browser.type # type
    /\ LET form == [browser EXCEPT !.type = type]
       IN  IF browser.uploadedImage # Null
           THEN /\ scoreValue' = updateValidationScore(validationResults, scoreValue)
                /\ browser' = [form EXCEPT
                                  !.disabled = submitBtnDisabled(validationResults, form)]
           ELSE /\ browser' = form
                /\ UNCHANGED scoreValue
    /\ UNCHANGED <<validationResults, scoreVars, tsVars, locVars, serverVars,
                   qualityVars, aiVars, reportVars, patchVars, exportVars>>

\* Rows the table holds at most in a run.
MaxRows == 2

\* `${Date.now()}.${fileExt}`
BrowserFileName(now) == [t |-> "string", time |-> now, ext |-> "jpg"]

\* The enabled submit button is clicked: the form's submit listener calls
\* validateForm(), which sets the button, and when it returns true
\* submitIncidentReport() runs to its first await: the button is disabled
\* and the photo uploaded under a name made of the time; upsert is off, so
\* an existing path is an error, and any error ends the submission in the
\* catch, which enables the button.
Submit(storageFails) ==
    /\ browser # Null
    /\ browser.modal
    /\ browser.pc = "idle"
    /\ ~browser.disabled
    /\ Len(incidents) < MaxRows
    /\ LET fileName == BrowserFileName(ServerNow)
           path == ImagePath(fileName)
       IN  IF ~validateForm(browser)
           THEN /\ browser' = [browser EXCEPT !.disabled = TRUE]
                /\ UNCHANGED storage
           ELSE IF storageFails \/ path \in storage
           THEN /\ browser' = [browser EXCEPT !.disabled = FALSE]
                /\ UNCHANGED storage
           ELSE /\ storage' = storage \cup {path}
                /\ browser' = [browser EXCEPT !.pc = "insert", !.fileName = fileName,
                                              !.disabled = TRUE]
    /\ UNCHANGED <<validationResults, scoreValue, router, incidents, clock, req,
                   scoreVars, tsVars, locVars, qualityVars, aiVars, reportVars, patchVars, exportVars>>

\* The score sent without the `|| 0`.
browserIncidentDataNoDefault(form, type, text) ==
    [type |-> type,
     ward |-> form.ward,
     description |-> Str(""),
     image_url |-> PublicUrl(ImagePath(form.fileName)),
     image_filename |-> form.fileName,
     gps_latitude |-> IF Truthy(form.currentGPS) THEN form.currentGPS.latitude ELSE Null,
     gps_longitude |-> IF Truthy(form.currentGPS) THEN form.currentGPS.longitude ELSE Null,
     gps_accuracy |-> IF Truthy(form.currentGPS) THEN form.currentGPS.accuracy ELSE Null,
     validation_overall_score |-> parseInt(text),
     status |-> Str("pending")]

\* The row submitIncidentReport inserts.
browserIncidentData(form, type, text) ==
    [type |-> type,
     ward |-> form.ward,
     description |-> Str(""),
     image_url |-> PublicUrl(ImagePath(form.fileName)),
     image_filename |-> form.fileName,
     gps_latitude |-> IF Truthy(form.currentGPS) THEN form.currentGPS.latitude ELSE Null,
     gps_longitude |-> IF Truthy(form.currentGPS) THEN form.currentGPS.longitude ELSE Null,
     gps_accuracy |-> IF Truthy(form.currentGPS) THEN form.currentGPS.accuracy ELSE Null,
     validation_overall_score |-> Or(parseInt(text), Num(0)),
     status |-> Str("pending")]

\* The request body is JSON: NaN is sent as null.
JsonBody(data) == [c \in DOMAIN data |-> IF data[c] = NaN THEN Null ELSE data[c]]

\* The insert of submitIncidentReport, with the form as it is by now: a
\* saved row is followed by hiding the modal and resetUploadForm(), an
\* error by the catch, which enables the button.
Insert(insertFails) ==
    /\ browser # Null
    /\ browser.pc = "insert"
    /\ LET data == JsonBody(browserIncidentData(browser, browser.type, scoreValue))
           row == NewRow(data, Len(incidents) + 1, ServerNow)
       IN  IF insertFails \/ ~RowAccepted(row, incidents)
           THEN /\ browser' = [browser EXCEPT !.pc = "idle", !.disabled = FALSE]
                /\ UNCHANGED <<incidents, validationResults>>
           ELSE /\ incidents' = Append(incidents, row)
                /\ browser' = [ResetForm(browser) EXCEPT !.pc = "idle", !.modal = FALSE]
                /\ validationResults' = NoResults
    /\ UNCHANGED <<scoreValue, router, storage, clock, req, scoreVars, tsVars, locVars,
                   qualityVars, aiVars, reportVars, patchVars, exportVars>>

-----------------------------------------------------------------------------
(* PATCH /api/incidents/:id *)

\* Number of PATCH requests of a run.
MaxPatches == 2

ReviewColumns == {"status", "reviewed_at", "reviewed_by", "updated_at"}

\* updateData that also resets the score.
updateDataRescoring(status, reviewedBy, now) ==
    [status |-> status, reviewed_at |-> now, updated_at |-> now,
     reviewed_by |-> reviewedBy, validation_overall_score |-> Num(0)]

\* updateData of updateIncidentStatus: reviewed_by only for a truthy
\* reviewedBy.
updateDataOf(status, reviewedBy, now) ==
    IF Truthy(reviewedBy)
    THEN [status |-> status, reviewed_at |-> now, updated_at |-> now,
          reviewed_by |-> reviewedBy]
    ELSE [status |-> status, reviewed_at |-> now, updated_at |-> now]

\* The row an UPDATE makes of `row`: the columns sent are replaced, then the
\* triggers set updated_at and, when both GPS columns are non-null,
\* location_point.
UpdatedRow(row, updateData, now) ==
    LET sent == [c \in Columns |-> IF c \in DOMAIN updateData THEN updateData[c] ELSE row[c]]
        base == [sent EXCEPT !.updated_at = now]
    IN  IF base.gps_latitude # Null /\ base.gps_longitude # Null
        THEN [base EXCEPT !.location_point =
                 [t |-> "point", x |-> base.gps_longitude, y |-> base.gps_latitude]]
        ELSE base

\* The answer to a PATCH of incident id with req.body.status = sent.
PatchAnswer(id, sent, status) == [id |-> id, sent |-> sent, status |-> status]

\* router.patch('/:id') of the longer routes file: 400 without a status or
\* with one that is not valid, 500 when the update fails or matches no row
\* (.single()), otherwise the row is updated and returned.
Patch(id, status, reviewedBy, updateFails) ==
    /\ router = "part_001"
    /\ Len(patches) < MaxPatches
    /\ IF ~Truthy(status) \/ status \notin IncidentStatuses THEN
           /\ patches' = Append(patches, PatchAnswer(id, status, 400))
           /\ UNCHANGED incidents
       ELSE LET row == IF id \in DOMAIN incidents
                       THEN UpdatedRow(incidents[id],
                                       updateDataOf(status, reviewedBy, ServerNow), ServerNow)
                       ELSE Null
            IN  IF updateFails \/ row = Null
                   \/ ~RowAccepted(row, [i \in DOMAIN incidents \ {id} |-> incidents[i]])
                THEN /\ patches' = Append(patches, PatchAnswer(id, status, 500))
                     /\ UNCHANGED incidents
                ELSE /\ patches' = Append(patches, PatchAnswer(id, status, 200))
                     /\ incidents' = [incidents EXCEPT ![id] = row]
    /\ UNCHANGED <<router, storage, clock, req, scoreVars, tsVars, locVars, qualityVars,
                   aiVars, reportVars, browserVars, exportVars>>

\* The status and reviewer of a PATCH body.
PatchStatuses == {Undefined, Str("resolved"), Str("verified"), Str("rejected")}
PatchReviewers == {Undefined, Str("officer")}

-----------------------------------------------------------------------------
(* The table written by the server, the browser and the reviewers *)

\* The server's part of these runs: one POST request.
TableRequests == {1}

TableSubmissions ==
    {Submission(File(GoodBuffer, 300 * KiB, "image/jpeg"), NearGps(Rohini, Str("waterlogging"))),
     Submission(File(WorstBuffer, 40 * KiB, "image/jpeg"), FarGps(Rohini, Str("pothole")))}

\* The browser once the modal has been opened and the camera is playing:
\* OpenModal, OpenCamera and GetUserMedia(TRUE) from BrowserStart.
BrowserPlaying ==
    /\ validationResults = NoResults
    /\ scoreValue \in InitialScoreTexts
    /\ browser = [Form(Null, Null, Str(""), Str("")) EXCEPT
                     !.modal = TRUE, !.cameraStream = [t |-> "object"]]

InitTable == ServerStart /\ ValidatorsIdle /\ BrowserPlaying /\ PatchIdle

\* The age in minutes of the photo when its timestamp timer fires, and the
\* draws of Math.random(): 0.1 and the largest one.
PhotoAges == {0}
ClientDraws == {RandomSteps \div 10, RandomSteps - 1}

NextTable ==
    \/ \E r \in TableRequests, input \in TableSubmissions : Receive(r, input)
    \/ \E r \in TableRequests, queryFails \in BOOLEAN, percent \in AiPercents :
           CheckDuplicate(r, queryFails, percent)
    \/ \E r \in TableRequests, storageFails \in BOOLEAN : UploadImage(r, storageFails)
    \/ \E r \in TableRequests, storageFails \in BOOLEAN : UploadThumbnail(r, storageFails)
    \/ \E r \in TableRequests, insertFails \in BOOLEAN : SaveIncident(r, insertFails)
    \/ \E size \in PhotoSizes : browser.captures < TableCaptures /\ CapturePhoto(size)
    \/ \E photo \in Photos, minutes \in PhotoAges, random \in ClientDraws :
           TimerFires(photo, minutes, random)
    \/ CaptureLocation
    \/ SelectWard
    \/ SelectType(Str("waterlogging"))
    \/ CloseModal
    \/ \E storageFails \in BOOLEAN : Submit(storageFails)
    \/ \E insertFails \in BOOLEAN : Insert(insertFails)

SpecTable == InitTable /\ [][NextTable]_vars

\* The browser alone: the modal, the camera, the form and its timers, and the
\* submission to the table.
InitForm == ServerIdle /\ ValidatorsIdle /\ BrowserStart /\ PatchIdle

NextForm ==
    \/ OpenModal
    \/ CloseModal
    \/ OpenCamera
    \/ \E granted \in BOOLEAN : GetUserMedia(granted)
    \/ \E size \in PhotoSizes : CapturePhoto(size)
    \/ RemoveImage
    \/ \E photo \in Photos, minutes \in PhotoAges, random \in ClientDraws :
           TimerFires(photo, minutes, random)
    \/ CaptureLocation
    \/ SelectWard
    \/ \E type \in BrowserTypes : SelectType(type)
    \/ \E storageFails \in BOOLEAN : Submit(storageFails)
    \/ \E insertFails \in BOOLEAN : Insert(insertFails)

SpecForm == InitForm /\ [][NextForm]_vars

\* A POST request and the reviewers' PATCH requests.
InitReview == ServerStart /\ ValidatorsIdle /\ BrowserIdle /\ PatchIdle

NextReview ==
    \/ \E r \in TableRequests, input \in TableSubmissions : Receive(r, input)
    \/ \E r \in TableRequests, queryFails \in BOOLEAN, percent \in AiPercents :
           CheckDuplicate(r, queryFails, percent)
    \/ \E r \in TableRequests, storageFails \in BOOLEAN : UploadImage(r, storageFails)
    \/ \E r \in TableRequests, storageFails \in BOOLEAN : UploadThumbnail(r, storageFails)
    \/ \E r \in TableRequests, insertFails \in BOOLEAN : SaveIncident(r, insertFails)
    \/ \E id \in 1 .. MaxRows, status \in PatchStatuses, reviewedBy \in PatchReviewers,
          updateFails \in BOOLEAN : Patch(id, status, reviewedBy, updateFails)
    \/ Tick

SpecReview == InitReview /\ [][NextReview]_vars

-----------------------------------------------------------------------------
(* Properties of the table *)

\* The rows written by the browser's direct insert: they alone carry no
\* image hash.
BrowserRows == {i \in DOMAIN incidents : incidents[i].image_hash = Null}

ServerRows == DOMAIN incidents \ BrowserRows

\* C17: in every persisted row, written by the server's POST route or by
\* the browser's direct insert, validation_overall_score is an integer in
\* [0, 100].  Under SpecTable.
C17_PersistedScoreInRange ==
    \A i \in DOMAIN incidents :
        /\ incidents[i].validation_overall_score.t = "number"
        /\ incidents[i].validation_overall_score.n \in 0 .. 100

\* The table holds a row of each writer: the server's scored 100, the
\* browser's, sent while scoreValue read "67%", scored 67.
C17_Witness ==
    /\ \E i \in ServerRows : incidents[i].validation_overall_score = Num(100)
    /\ \E i \in BrowserRows : incidents[i].validation_overall_score = Num(67)

\* A row sent before any client check had run, while scoreValue still held
\* its initial text "--": the score stored is 0.
C17_WitnessInitialText ==
    \E i \in BrowserRows :
        /\ incidents[i].validation_overall_score = Num(0)
        /\ scoreValue = Text(<<"-", "-">>)

\* C18: once a row is persisted, status updates (updateIncidentStatus
\* behind PATCH /api/incidents/:id) change nothing of it but status,
\* reviewed_at, reviewed_by and updated_at: the four validation results
\* and validation_overall_score stay as persisted.  Under SpecReview.
C18_StatusUpdatesKeepValidation ==
    [][\A i \in DOMAIN incidents :
           /\ i \in DOMAIN incidents'
           /\ \A c \in Columns \ ReviewColumns : incidents'[i][c] = incidents[i][c]]_vars

\* A row has been reviewed twice, last rejected by an officer, and still
\* holds the results and the score its request computed.
C18_Witness ==
    /\ Len(patches) = 2
    /\ \A k \in DOMAIN patches : patches[k].id = 1 /\ patches[k].status = 200
    /\ 1 \in DOMAIN incidents
    /\ incidents[1].status = Str("rejected")
    /\ incidents[1].reviewed_by = Str("officer")
    /\ incidents[1].reviewed_at # Null
    /\ incidents[1].validation_overall_score = req[1].overallScore
    /\ incidents[1].validation_location = req[1].validationResults.location
    /\ incidents[1].validation_overall_score = Num(25)

-----------------------------------------------------------------------------
(* GET /api/incidents/training/export *)

\* Number of export requests of a run.
MaxExports == 1

\* const { minScore = 75 } = req.query; filters.minScore = parseInt(minScore)
routeMinScore(query) == IF query = Undefined THEN Num(75) ELSE parseInt(query)

\* filters.minScore || 75
trainingThreshold(minScore) == Or(minScore, Num(75))

\* getTrainingData(filters): the ids of the rows with status = 'verified'
\* and validation_overall_score >= the threshold; a NULL score matches no
\* comparison.
getTrainingData(table, minScore) ==
    {i \in DOMAIN table :
        /\ table[i].status = Str("verified")
        /\ table[i].validation_overall_score # Null
        /\ table[i].validation_overall_score.n >= trainingThreshold(minScore).n}

ExportAnswer(query, status, ids) == [query |-> query, status |-> status, ids |-> ids]

\* router.get('/training/export') of the longer routes file: 500 when the
\* query fails, otherwise the matching incidents.
Export(query, queryFails) ==
    /\ router = "part_001"
    /\ Len(exports) < MaxExports
    /\ exports' = Append(exports,
                         IF queryFails THEN ExportAnswer(query, 500, {})
                         ELSE ExportAnswer(query, 200,
                                           getTrainingData(incidents, routeMinScore(query))))
    /\ UNCHANGED <<serverVars, scoreVars, tsVars, locVars, qualityVars, aiVars,
                   reportVars, browserVars, patchVars>>

\* The minScore of the query string: missing, 0, 25, 26, 75, 100, or not
\* a number.
ExportQueries ==
    {Undefined, Text(<<"0">>), Text(<<"2", "5">>), Text(<<"2", "6">>),
     Text(<<"7", "5">>), Text(<<"1", "0", "0">>), Text(<<"a", "l", "l">>)}

\* A POST request, the reviewers' PATCH requests and an export.
InitExport == ServerStart /\ ValidatorsIdle /\ BrowserIdle /\ PatchIdle

NextExport ==
    \/ \E r \in TableRequests, input \in TableSubmissions : Receive(r, input)
    \/ \E r \in TableRequests, queryFails \in BOOLEAN, percent \in AiPercents :
           CheckDuplicate(r, queryFails, percent)
    \/ \E r \in TableRequests, storageFails \in BOOLEAN : UploadImage(r, storageFails)
    \/ \E r \in TableRequests, storageFails \in BOOLEAN : UploadThumbnail(r, storageFails)
    \/ \E r \in TableRequests, insertFails \in BOOLEAN : SaveIncident(r, insertFails)
    \/ \E id \in 1 .. MaxRows, status \in PatchStatuses, reviewedBy \in PatchReviewers,
          updateFails \in BOOLEAN : Patch(id, status, reviewedBy, updateFails)
    \/ \E query \in ExportQueries, queryFails \in BOOLEAN : Export(query, queryFails)

SpecExport == InitExport /\ [][NextExport]_vars

-----------------------------------------------------------------------------
(* Properties of the export, under SpecExport *)

\* The minScore a query asks for, 75 when it gives none; -1 for a
\* minScore that is not a number.
requestedMinScore(query) ==
    IF query = Undefined THEN 75
    ELSE IF parseInt(query) = NaN THEN -1 ELSE parseInt(query).n

\* The rows with status 'verified' and a score of at least n.
VerifiedAtLeast(n) ==
    {i \in DOMAIN incidents :
        /\ incidents[i].status = Str("verified")
        /\ incidents[i].validation_overall_score # Null
        /\ incidents[i].validation_overall_score.n >= n}

\* C22 as stated: an answered export returns exactly the incidents whose
\* status is 'verified' and whose score is at least the requested
\* minScore, for every minScore in 0..100, and at least 75 when none is
\* given; no pending, rejected or duplicate incident is exported.
C22_ExportMatchesRequest ==
    [][(exports' # exports /\ exports'[Len(exports')].status = 200
          /\ requestedMinScore(exports'[Len(exports')].query) \in 0 .. 100) =>
           /\ exports'[Len(exports')].ids =
                  VerifiedAtLeast(requestedMinScore(exports'[Len(exports')].query))
           /\ \A i \in exports'[Len(exports')].ids :
                  incidents[i].status = Str("verified")]_vars

\* An export with minScore=0 has been answered without the verified
\* incident, whose score is 25.
C22_Witness ==
    /\ exports = <<ExportAnswer(Text(<<"0">>), 200, {})>>
    /\ patches = <<PatchAnswer(1, Str("verified"), 200)>>
    /\ 1 \in DOMAIN incidents
    /\ incidents[1].status = Str("verified")
    /\ incidents[1].validation_overall_score = Num(25)

\* Whatever the query, only verified incidents are exported, and with
\* minScore=0 the threshold applied is 75.
C22_OnlyVerifiedExported ==
    [][(exports' # exports /\ exports'[Len(exports')].status = 200) =>
           /\ \A i \in exports'[Len(exports')].ids :
                  incidents[i].status = Str("verified")
           /\ requestedMinScore(exports'[Len(exports')].query) = 0 =>
                  exports'[Len(exports')].ids = VerifiedAtLeast(75)]_vars

-----------------------------------------------------------------------------
(* Properties of concurrent POST requests, under Spec *)

\* The hash of request r's image is the image_hash of a persisted row.
HashPersisted(r) ==
    \E i \in DOMAIN incidents : incidents[i].image_hash = req[r].fileHash

\* C23 as stated: a POST whose image hash is the image_hash of an already
\* persisted incident is answered 409 and has no effect: when its
\* duplicate check completes no object is uploaded and no row inserted, and
\* the request is over.
C23_DuplicateAnswered409 ==
    [][\A r \in Requests :
           (req[r].pc = "checkDuplicate" /\ req'[r].pc # "checkDuplicate" /\ HashPersisted(r)) =>
               /\ req'[r].pc = "done"
               /\ req'[r].response.status = 409
               /\ storage' = storage
               /\ incidents' = incidents]_vars

\* The second request carried the image of the first one's persisted row,
\* its duplicate query failed, and it has uploaded its image before being
\* answered 500.
C23_Witness ==
    /\ req[1].response # Null /\ req[1].response.status = 201
    /\ req[2].fileHash = req[1].fileHash
    /\ req[2].response # Null /\ req[2].response.status = 500
    /\ req[2].imageUpload # Null
    /\ req[2].imageUpload.path \in storage
    /\ Len(incidents) = 1

\* The input has no image file, no ward, no type, or a type outside
\* {waterlogging, pothole, drainage}; a file, when there is one, is one
\* multer lets through.
BadRequest(input) ==
    /\ input.file # Undefined =>
           (input.file.mimetype \in AllowedTypes /\ input.file.size <= MaxFileSize)
    /\ \/ ~Truthy(input.file)
       \/ ~Truthy(input.body.ward)
       \/ ~Truthy(input.body.type)
       \/ input.body.type \notin IncidentTypes

\* C24 as stated: a POST with no image file, with ward or type missing, or
\* with a type outside {waterlogging, pothole, drainage} is answered 400 on
\* arrival, before any validation check, upload or insert; storage and the
\* table are unchanged.
C24_BadRequestAnswered400 ==
    [][\A r \in Requests :
           (req[r].pc = "idle" /\ req'[r].pc # "idle" /\ BadRequest(req'[r].input)) =>
               /\ req'[r].pc = "done"
               /\ req'[r].response.status = 400
               /\ req'[r].validationResults = Null
               /\ storage' = storage
               /\ incidents' = incidents]_vars

\* Under backend/routes/incidents.js a request of type 'flood' has been
\* validated and has uploaded its image and thumbnail before being
\* answered 500.
C24_Witness ==
    \E r \in Requests :
        /\ router = "incidents.js"
        /\ req[r].input # Null
        /\ req[r].input.body.type = Str("flood")
        /\ req[r].validationResults # Null
        /\ req[r].thumbnailUpload # Null
        /\ req[r].thumbnailUpload.path \in storage
        /\ req[r].response # Null /\ req[r].response.status = 500

-----------------------------------------------------------------------------
(* Properties of an incident's status, under SpecReview *)

\* The PATCH answered in this step.
LastPatch == patches'[Len(patches')]

\* C25: every incident is persisted with status 'pending'; after any
\* sequence of PATCH requests its status is one of pending, verified,
\* rejected, duplicate; a PATCH with a missing status or a status outside
\* this set is answered 400 and leaves the table unchanged.
C25_StatusStaysValid ==
    [][/\ Len(incidents') > Len(incidents) =>
              incidents'[Len(incidents')].status = Str("pending")
       /\ \A i \in DOMAIN incidents' :
              incidents'[i].status \in {Str("pending"), Str("verified"),
                                         Str("rejected"), Str("duplicate")}
       /\ (patches' # patches
           /\ LastPatch.sent \notin {Str("pending"), Str("verified"),
                                     Str("rejected"), Str("duplicate")}) =>
              /\ LastPatch.status = 400
              /\ incidents' = incidents]_vars

\* A persisted incident was first verified, then a PATCH with status
\* 'resolved' was answered 400: the incident is still verified.
C25_Witness ==
    /\ Len(patches) = 2
    /\ patches[1] = PatchAnswer(1, Str("verified"), 200)
    /\ patches[2] = PatchAnswer(1, Str("resolved"), 400)
    /\ 1 \in DOMAIN incidents
    /\ incidents[1].status = Str("verified")

-----------------------------------------------------------------------------
(* Properties of the table under concurrent requests, under Spec *)

\* C26: under any interleaving of concurrent POST requests, two requests
\* with the same image whose duplicate checks both ran before either
\* insert included, the table never holds two rows with the same
\* image_hash.
C26_NoTwoRowsWithOneHash ==
    \A i, j \in DOMAIN incidents :
        (i # j /\ incidents[i].image_hash # Null) =>
            incidents[i].image_hash # incidents[j].image_hash

\* Two requests with the same image both passed the duplicate check and
\* uploaded their images; one was saved, the other refused by the table.
C26_Witness ==
    /\ req[1].fileHash # Null
    /\ req[1].fileHash = req[2].fileHash
    /\ req[1].imageUpload # Null /\ req[2].imageUpload # Null
    /\ req[1].thumbnailUpload # Null /\ req[2].thumbnailUpload # Null
    /\ req[1].response # Null /\ req[1].response.status = 201
    /\ req[2].response # Null /\ req[2].response.status = 500
    /\ Len(incidents) = 1

-----------------------------------------------------------------------------
(* Properties of the storage bucket, under Spec *)

\* A persisted row names the object: by its path columns or by its URL.
Referenced(upload) ==
    \E i \in DOMAIN incidents :
        \/ incidents[i].image_path = upload.path
        \/ incidents[i].image_storage_path = upload.path
        \/ incidents[i].image_thumbnail_path = upload.path
        \/ incidents[i].image_url = upload.url

\* The objects request r has put in the bucket.
UploadsOf(r) == {req[r].imageUpload, req[r].thumbnailUpload} \ {Null}

\* C27 as stated: once a POST request is over, every image and thumbnail
\* object it uploaded is referenced by a persisted row; a failed thumbnail
\* upload or a failed insert leaves no orphaned object in the bucket.
C27_NoOrphanObjects ==
    \A r \in Requests :
        req[r].pc = "done" =>
            \A u \in UploadsOf(r) : u.path \in storage => Referenced(u)

\* Under the longer route a request uploaded its image, its thumbnail
\* upload failed and it was answered 500: the image is in the bucket and no
\* row was saved.
C27_Witness ==
    \E r \in Requests :
        /\ router = "part_001"
        /\ req[r].pc = "done"
        /\ req[r].response.status = 500
        /\ req[r].imageUpload # Null
        /\ req[r].thumbnailUpload = Null
        /\ req[r].imageUpload.path \in storage
        /\ incidents = <<>>

-----------------------------------------------------------------------------
(* Properties of the report form, under SpecForm *)

\* C21 as stated: the submit button is enabled only when a photo has been
\* captured, a ward is selected, an incident type is selected and a GPS
\* location has been captured; whenever one of these is missing the button
\* is disabled.
C21_EnabledOnlyWhenAllValid ==
    ~browser.disabled =>
        /\ browser.uploadedImage # Null
        /\ browser.ward # Str("")
        /\ browser.type # Str("")
        /\ browser.currentGPS # Null

\* validateForm() has enabled the button right after a capture, with a
\* ward and a type selected and no location captured; no check has run.
C21_Witness ==
    /\ browser.modal
    /\ ~browser.disabled
    /\ browser.uploadedImage # Null
    /\ browser.ward # Str("") /\ browser.type # Str("")
    /\ browser.currentGPS = Null
    /\ validationResults = NoResults

\* C28 as stated: under any interleaving of the user's actions with the
\* timers of validateImage, the submit button is never enabled while no
\* photo is held.
C28_NoSubmitWithoutPhoto ==
    browser.uploadedImage = Null => browser.disabled

\* The only photo was removed before its first timer fired; the timestamp
\* check then threw, and the AI check, fired after a ward and a type were
\* selected, enabled the button.
C28_Witness ==
    /\ browser.modal
    /\ browser.captures = 1
    /\ browser.uploadedImage = Null
    /\ browser.fired[1] = 2
    /\ validationResults.timestamp = Null
    /\ validationResults.aiGenerated = Bool(TRUE)
    /\ browser.ward # Str("") /\ browser.type # Str("")
    /\ ~browser.disabled

\* submitIncidentReport() starts in this step and its upload succeeds.
Submitting == browser.pc = "idle" /\ browser'.pc = "insert"

\* C29 as stated: when a submission starts, none of the four
\* validationResults entries is null and each was stored by a check run for
\* the photo being submitted, not for an earlier photo or before the last
\* resetUploadForm.
C29_ScoreFromSubmittedPhoto ==
    [][Submitting =>
           \A k \in DOMAIN validationResults :
               /\ validationResults[k] # Null
               /\ browser.origin[k] = browser.captures]_vars

\* The second photo is being submitted while the timestamp result is the
\* one a timer of the first photo stored, and the quality check has not
\* run.
C29_Witness ==
    /\ browser.pc = "insert"
    /\ browser.captures = 2
    /\ validationResults.timestamp # Null
    /\ browser.origin.timestamp = 1
    /\ validationResults.quality = Null

\* After the modal was closed and reopened, the second photo is being
\* submitted with a result a timer of the first photo stored since.
C29_WitnessAfterReset ==
    /\ browser.pc = "insert"
    /\ browser.captures = 2
    /\ browser.fired[2] = 0
    /\ validationResults.aiGenerated # Null
    /\ browser.origin.aiGenerated = 1
    /\ validationResults.timestamp = Null

\* C30 as stated: whenever the upload modal is closed no camera stream is
\* active, also when closeModal runs while the getUserMedia request of
\* openCamera is pending.
C30_NoStreamWhenClosed ==
    ~browser.modal => browser.cameraStream = Null

\* The modal was closed while the request was pending; the request was then
\* granted and the stream is held with the modal closed.
C30_Witness ==
    /\ ~browser.modal
    /\ ~browser.cameraPending
    /\ browser.cameraStream # Null

====
